---------------------------- MODULE Spec2Model ----------------------------
(***************************************************************************)
(* Model of the Inkscape export pipeline of the Mermaid renderer           *)
(* (src/src/utils/inkscapeConverter.js, convertSvgToInkscape).             *)
(*                                                                         *)
(* Representation.                                                         *)
(*  - A string value (attribute value, CSS value) is a record with a field *)
(*    k: "kw" (a keyword or any other unrecognised text, name = the text), *)
(*    "rgb"/"rgba" (text matched by /^rgba?\((\d+),\s*(\d+),\s*(\d+)/),     *)
(*    "hex" ('#' followed by the listed hexadecimal digits), "num" (text   *)
(*    with a numeric prefix, what parseFloat reads: v in tenths of a unit, *)
(*    unit = the text after the number).  Undef stands for null/undefined. *)
(*  - Numbers are fixed point, in tenths of a user unit; scale factors are *)
(*    plain integers.  Binary floating point rounding is not modelled.     *)
(*  - A document is the DOM tree in document order: nodes[i].parent is the *)
(*    index of the parent element, 0 for the root svg element.             *)
(*  - A stylesheet is the sequence of blocks /([^{]+)\{([^}]+)\}/g finds;  *)
(*    a selector is the sequence of its whitespace-separated parts.        *)
(***************************************************************************)
EXTENDS Integers, Sequences, FiniteSets, TLC

VARIABLES svgContent, doc, cssRules, textData, markerColors, bbox, out,
          prevOut, pc, run, thrown,
          history, currentIndex, tabs, activeTabId, nextId, keyHandlers,
          chart, error, mermaidRef, pending, changes, errorSince,
          preview, exportPc, exportTextData, elementStyles, exportMarkerColors,
          svgClone, downloads,
          isConverting, reading, alerts, converted

\* the locals and the result of convertSvgToInkscape
converterVars == <<svgContent, doc, cssRules, textData, markerColors, bbox, out,
                   prevOut, pc, run, thrown>>

\* the state of App that undo and redo work on
editorVars == <<history, currentIndex, tabs, activeTabId, nextId, keyHandlers>>

\* the state of MermaidRenderer
rendererVars == <<chart, error, mermaidRef, pending, changes, errorSince>>

\* the rendered svg element, the locals of exportSVG, and the files handed
\* to the browser for download
exporterVars == <<preview, exportPc, exportTextData, elementStyles, exportMarkerColors,
                  svgClone, downloads>>

\* the state of App and of MermaidRenderer
\* the state of handleSVGFileUpload: the flag, the file the FileReader is
\* reading, the messages shown by alert, the converted files downloaded
uploadVars == <<isConverting, reading, alerts, converted>>

appVars == <<editorVars, rendererVars, exporterVars, uploadVars>>

vars == <<converterVars, appVars>>

---------------------------------------------------------------------------
(* String values                                                           *)

Undef == [k |-> "undef"]
Kw(s) == [k |-> "kw", name |-> s]
Rgb(r, g, b) == [k |-> "rgb", r |-> r, g |-> g, b |-> b]
Rgba(r, g, b, a) == [k |-> "rgba", r |-> r, g |-> g, b |-> b, a |-> a]
Hex(ds) == [k |-> "hex", digits |-> ds]
Num(v, u) == [k |-> "num", v |-> v, unit |-> u]
Px(n) == Num(n * 10, "px")
None == Kw("none")
EmptyString == Kw("")

\* JavaScript truthiness of a string-or-undefined value
Truthy(v) == v # Undef /\ v # EmptyString

\* a || b on string values
OrElse(a, b) == IF Truthy(a) THEN a ELSE b

\* obj[key] on a declaration map: undefined when the key is absent
Get(map, key) == IF key \in DOMAIN map THEN map[key] ELSE Undef

\* el.getAttribute(name): null when the attribute is absent
getAttribute(attrs, name) == IF name \in DOMAIN attrs THEN attrs[name] ELSE Undef

hasAttribute(attrs, name) == name \in DOMAIN attrs

setAttribute(attrs, name, v) ==
  [a \in DOMAIN attrs \cup {name} |-> IF a = name THEN v ELSE attrs[a]]

removeAttribute(attrs, name) == [a \in DOMAIN attrs \ {name} |-> attrs[a]]

RECURSIVE removeAttributes(_, _)
removeAttributes(attrs, names) ==
  IF names = <<>> THEN attrs
  ELSE removeAttributes(removeAttribute(attrs, Head(names)), Tail(names))

NoAttrs == [a \in {} |-> Undef]

\* Object.assign(target, source)
Assign(target, source) ==
  [p \in DOMAIN target \cup DOMAIN source |->
     IF p \in DOMAIN source THEN source[p] ELSE target[p]]

---------------------------------------------------------------------------
(* rgbToHex                                                                *)

HexDigits == <<"0", "1", "2", "3", "4", "5", "6", "7", "8", "9",
               "a", "b", "c", "d", "e", "f">>

\* Number.prototype.toString(16) of a non-negative integer
RECURSIVE toString16(_)
toString16(n) ==
  IF n < 16 THEN <<HexDigits[n + 1]>>
  ELSE toString16(n \div 16) \o <<HexDigits[(n % 16) + 1]>>

\* String.prototype.padStart(2, '0')
padStart2(s) == IF Len(s) < 2 THEN <<"0">> \o s ELSE s

\* the hexadecimal digits left without padding
rgbToHexUnpadded(color) ==
  IF ~Truthy(color) \/ color = None THEN color
  ELSE IF color.k \in {"rgb", "rgba"}
       THEN Hex(toString16(color.r) \o toString16(color.g) \o toString16(color.b))
       ELSE color

rgbToHex(color) ==
  IF ~Truthy(color) \/ color = None THEN color
  ELSE IF color.k \in {"rgb", "rgba"}
       THEN Hex(padStart2(toString16(color.r)) \o padStart2(toString16(color.g))
                \o padStart2(toString16(color.b)))
       ELSE color

DefaultColor == Hex(<<"3", "3", "3", "3", "3", "3">>)

---------------------------------------------------------------------------
(* parseCSSRules: the Map from selector to declarations, in insertion      *)
(* order, as the sequence of its entries.                                   *)

ClassSel(c) == <<[k |-> "class", name |-> c]>>
TagSel(t) == <<[k |-> "tag", name |-> t]>>
IdSel(i) == <<[k |-> "id", name |-> i]>>

\* the declarations object of one block: a later duplicate overwrites
RECURSIVE parseDeclarations(_)
parseDeclarations(decls) ==
  IF decls = <<>> THEN NoAttrs
  ELSE LET d == decls[Len(decls)]
           before == parseDeclarations(SubSeq(decls, 1, Len(decls) - 1))
       IN IF Truthy(d.value) THEN Assign(before, (d.prop :> d.value)) ELSE before

\* Map.prototype.set: an existing key keeps its position and gets the new
\* value, a new key is appended
MapSet(map, key, value) ==
  IF \E i \in 1..Len(map) : map[i].selector = key
  THEN [i \in 1..Len(map) |->
          IF map[i].selector = key THEN [selector |-> key, styles |-> value]
          ELSE map[i]]
  ELSE Append(map, [selector |-> key, styles |-> value])

RECURSIVE MapSetAll(_, _, _)
MapSetAll(map, selectors, styles) ==
  IF selectors = <<>> THEN map
  ELSE MapSetAll(MapSet(map, Head(selectors), styles), Tail(selectors), styles)

RECURSIVE parseCSSRules(_)
parseCSSRules(cssText) ==
  IF cssText = <<>> THEN <<>>
  ELSE LET block == cssText[Len(cssText)]
       IN MapSetAll(parseCSSRules(SubSeq(cssText, 1, Len(cssText) - 1)),
                    block.sels, parseDeclarations(block.decls))

\* Map.prototype.get
MapGet(map, key) ==
  IF \E i \in 1..Len(map) : map[i].selector = key
  THEN map[CHOOSE i \in 1..Len(map) : map[i].selector = key].styles
  ELSE Undef

---------------------------------------------------------------------------
(* The DOM tree                                                            *)

Node(tag, parent, attrs, text) ==
  [tag |-> tag, parent |-> parent, attrs |-> attrs, text |-> text]

\* (el.getAttribute('class') || '').split(/\s+/), as the set of class names
classList(attrs) ==
  IF hasAttribute(attrs, "class")
  THEN {attrs["class"][j] : j \in 1..Len(attrs["class"])}
  ELSE {}

\* the strict ancestors of node i that are elements below the root
RECURSIVE Ancestors(_, _)
Ancestors(nodes, i) ==
  IF i = 0 \/ nodes[i].parent = 0 THEN {}
  ELSE {nodes[i].parent} \cup Ancestors(nodes, nodes[i].parent)

\* a test of the parent alone instead of the whole ancestor chain
closestMarkerParentOnly(nodes, i) ==
  \/ nodes[i].tag = "marker"
  \/ nodes[i].parent # 0 /\ nodes[nodes[i].parent].tag = "marker"

\* el.closest('marker'): the element or one of its ancestors is a marker
closestMarker(nodes, i) ==
  \E j \in {i} \cup Ancestors(nodes, i) : nodes[j].tag = "marker"

\* a walk that starts at the element instead of at its parent
hasAncestorWithClassFromSelf(d, i, className) ==
  \/ \E j \in {i} \cup Ancestors(d.nodes, i) : className \in classList(d.nodes[j].attrs)
  \/ className \in classList(d.root)

\* hasAncestorWithClass: walks parentNode up to and including the root svg
hasAncestorWithClass(d, i, className) ==
  \/ \E j \in Ancestors(d.nodes, i) : className \in classList(d.nodes[j].attrs)
  \/ className \in classList(d.root)

\* does the rule with this selector apply to element i (lines 74-112)
selectorMatches(d, i, selector, idPrefix) ==
  LET el == d.nodes[i]
      tagName == el.tag
      classes == classList(el.attrs)
  IN IF Len(selector) > 1
     THEN LET lastPart == selector[Len(selector)]
              matchesElement ==
                \/ lastPart.k = "tag" /\ lastPart.name = tagName
                \/ lastPart.k = "class" /\ lastPart.name \in classes
          IN /\ matchesElement
             /\ \E p \in 1..(Len(selector) - 1) :
                   /\ selector[p].k = "class"
                   /\ hasAncestorWithClass(d, i, selector[p].name)
     ELSE IF selector[1].k = "class" THEN selector[1].name \in classes
     ELSE selector[1].k = "tag" /\ selector[1].name = tagName

\* the fold of Object.assign over the Map's entries in iteration order
RECURSIVE getApplicableStylesUpTo(_, _, _, _, _)
getApplicableStylesUpTo(d, i, rules, idPrefix, n) ==
  IF n = 0 THEN NoAttrs
  ELSE LET before == getApplicableStylesUpTo(d, i, rules, idPrefix, n - 1)
       IN IF selectorMatches(d, i, rules[n].selector, idPrefix)
          THEN Assign(before, rules[n].styles)
          ELSE before

getApplicableStyles(d, i, rules, idPrefix) ==
  getApplicableStylesUpTo(d, i, rules, idPrefix, Len(rules))

\* the inline style attribute split on ';' and ':' (lines 279-286)
parseInlineStyle(attrs) ==
  IF hasAttribute(attrs, "style") THEN parseDeclarations(attrs["style"])
  ELSE NoAttrs

---------------------------------------------------------------------------
(* Numbers: parseFloat and its fallbacks                                    *)

\* parseFloat(v) || fallback, in tenths (NaN and 0 are both falsy)
parseFloatOr(v, fallback) == IF v.k = "num" /\ v.v # 0 THEN v.v ELSE fallback

\* isNaN(parseFloat(v))
isNaNValue(v) == v.k # "num"

\* Number.prototype.toString of a number held in tenths
numToString(n) == Num(n, "")

NaNString == Kw("NaN")

Min(S) == CHOOSE x \in S : \A y \in S : x <= y
Max(S) == CHOOSE x \in S : \A y \in S : x >= y

\* Math.ceil of a number held in tenths, as a whole number of units
ceilUnits(t) == -((-t) \div 10)

---------------------------------------------------------------------------
(* Lines 146-209: text and styles of the original foreignObjects           *)

Descendants(nodes, i) == {j \in 1..Len(nodes) : i \in Ancestors(nodes, j)}

\* the indices of the elements with this tag, in document order
RECURSIVE elementsByTag(_, _, _)
elementsByTag(nodes, tag, n) ==
  IF n = 0 THEN <<>>
  ELSE elementsByTag(nodes, tag, n - 1)
         \o (IF nodes[n].tag = tag THEN <<n>> ELSE <<>>)

\* <br> and <br/> become a space (line 157)
brToSpace(t) == [j \in 1..Len(t) |-> IF t[j] = "BR" THEN " " ELSE t[j]]

\* the text of the element and of its descendants, in document order
RECURSIVE subtreeText(_, _, _)
subtreeText(nodes, i, n) ==
  IF n = 0 THEN <<>>
  ELSE subtreeText(nodes, i, n - 1)
         \o (IF n = i \/ n \in Descendants(nodes, i) THEN nodes[n].text ELSE <<>>)

textContentOf(nodes, i) == subtreeText(nodes, i, Len(nodes))

RECURSIVE trimStart(_)
trimStart(t) == IF t # <<>> /\ Head(t) = " " THEN trimStart(Tail(t)) ELSE t

RECURSIVE trimEnd(_)
trimEnd(t) ==
  IF t # <<>> /\ t[Len(t)] = " " THEN trimEnd(SubSeq(t, 1, Len(t) - 1)) ELSE t

\* String.prototype.trim
trim(t) == trimEnd(trimStart(t))

DefaultTextStyles ==
  [color |-> DefaultColor, fontSize |-> Px(16),
   fontFamily |-> Kw("Arial, sans-serif"), fontWeight |-> Kw("normal")]

\* svgElement.getAttribute('id') || ''
svgIdOf(d) == OrElse(getAttribute(d.root, "id"), EmptyString)

\* styles of one foreignObject (lines 177-206)
textStyles(d, fo, rules) ==
  LET svgId == svgIdOf(d)
      got == MapGet(rules, IdSel(svgId.name))
      rootSvgStyles == IF got = Undef THEN NoAttrs ELSE got
      styled == {j \in Descendants(d.nodes, fo) : d.nodes[j].tag \in {"div", "span", "p"}}
  IN IF styled = {} THEN DefaultTextStyles
     ELSE LET styledElement == Min(styled)
              cssStyles == getApplicableStyles(d, styledElement, rules, svgId)
              inlineStyles == parseInlineStyle(d.nodes[styledElement].attrs)
          IN [color |-> rgbToHex(OrElse(Get(inlineStyles, "color"),
                                 OrElse(Get(cssStyles, "color"),
                                 OrElse(Get(cssStyles, "fill"),
                                 OrElse(Get(rootSvgStyles, "fill"), DefaultColor))))),
              fontSize |-> OrElse(Get(inlineStyles, "font-size"),
                           OrElse(Get(cssStyles, "font-size"),
                           OrElse(Get(rootSvgStyles, "font-size"), Px(16)))),
              fontFamily |-> OrElse(Get(inlineStyles, "font-family"),
                             OrElse(Get(cssStyles, "font-family"),
                             OrElse(Get(rootSvgStyles, "font-family"),
                                    Kw("Arial, sans-serif")))),
              fontWeight |-> OrElse(Get(inlineStyles, "font-weight"),
                             OrElse(Get(cssStyles, "font-weight"),
                             OrElse(Get(rootSvgStyles, "font-weight"), Kw("normal"))))]

extractTextData(d, rules) ==
  LET fos == elementsByTag(d.nodes, "foreignObject", Len(d.nodes))
  IN [idx \in 1..Len(fos) |->
        LET fo == fos[idx]
            a == d.nodes[fo].attrs
        IN [textContent |-> trim(brToSpace(textContentOf(d.nodes, fo))),
            x |-> parseFloatOr(getAttribute(a, "x"), 0),
            y |-> parseFloatOr(getAttribute(a, "y"), 0),
            width |-> parseFloatOr(getAttribute(a, "width"), 0),
            height |-> parseFloatOr(getAttribute(a, "height"), 0),
            styles |-> textStyles(d, fo, rules)]]

---------------------------------------------------------------------------
(* Lines 211-247: marker colours                                           *)

MarkerAttrs == <<"marker-end", "marker-start", "marker-mid">>

Url(id) == [k |-> "url", id |-> id]

\* extractMarkerId: the id of url(#id), the set of ids found
extractMarkerIds(attrs) ==
  {attrs[a].id : a \in {m \in DOMAIN attrs : /\ \E j \in 1..3 : MarkerAttrs[j] = m
                                            /\ attrs[m].k = "url"}}

\* strokeColor of one referencing element (lines 217-230)
strokeColorFor(d, i, rules) ==
  LET cssStyles == getApplicableStyles(d, i, rules, svgIdOf(d))
      inlineStyles == parseInlineStyle(d.nodes[i].attrs)
  IN rgbToHex(OrElse(Get(inlineStyles, "stroke"),
              OrElse(getAttribute(d.nodes[i].attrs, "stroke"),
              OrElse(Get(cssStyles, "stroke"), DefaultColor))))

\* querySelectorAll('[marker-end], [marker-start], [marker-mid]')
hasMarkerRef(attrs) == \E j \in 1..3 : hasAttribute(attrs, MarkerAttrs[j])

\* markerColors after the first n elements have been visited
RECURSIVE extractMarkerColorsUpTo(_, _, _)
extractMarkerColorsUpTo(d, rules, n) ==
  IF n = 0 THEN NoAttrs
  ELSE LET before == extractMarkerColorsUpTo(d, rules, n - 1)
           a == d.nodes[n].attrs
       IN IF hasMarkerRef(a)
          THEN Assign(before, [id \in extractMarkerIds(a) |-> strokeColorFor(d, n, rules)])
          ELSE before

extractMarkerColors(d, rules) == extractMarkerColorsUpTo(d, rules, Len(d.nodes))

---------------------------------------------------------------------------
(* Lines 251-262: namespaces, marker rules removed from the style tags     *)

MarkerRuleClasses == {"marker", "arrowhead", "arrowMarker"}

\* the block's selector text contains .marker, .arrowhead or .arrowMarker
isMarkerRule(block) ==
  \E s \in 1..Len(block.sels) : \E p \in 1..Len(block.sels[s]) :
     block.sels[s][p].k = "class" /\ block.sels[s][p].name \in MarkerRuleClasses

RECURSIVE removeMarkerRules(_)
removeMarkerRules(cssText) ==
  IF cssText = <<>> THEN <<>>
  ELSE (IF isMarkerRule(Head(cssText)) THEN <<>> ELSE <<Head(cssText)>>)
         \o removeMarkerRules(Tail(cssText))

prepareRoot(d) ==
  [d EXCEPT !.root = setAttribute(setAttribute(d.root, "xmlns", Kw("http://www.w3.org/2000/svg")),
                                  "xmlns:xlink", Kw("http://www.w3.org/1999/xlink")),
            !.css = removeMarkerRules(d.css)]

---------------------------------------------------------------------------
(* Lines 264-349: first pass, styles baked into attributes                 *)

EdgeClasses == {"flowchart-link", "edgePath"}

isEdgePath(attrs) ==
  \/ classList(attrs) \cap EdgeClasses # {}
  \/ hasAttribute(attrs, "marker-end")
  \/ hasAttribute(attrs, "marker-start")

\* applyStyle(svgAttr, [cssProp]) (lines 301-330)
applyStyle(attrs, svgAttr, inlineStyles, cssStyles) ==
  LET inlineValue == Get(inlineStyles, svgAttr)
      cssValue == Get(cssStyles, svgAttr)
  IN IF Truthy(inlineValue) /\ inlineValue # None
       THEN setAttribute(attrs, svgAttr, rgbToHex(inlineValue))
     ELSE IF inlineValue = None THEN setAttribute(attrs, svgAttr, None)
     ELSE IF Truthy(cssValue) /\ cssValue # None
       THEN setAttribute(attrs, svgAttr, rgbToHex(cssValue))
     ELSE IF cssValue = None THEN setAttribute(attrs, svgAttr, None)
     ELSE attrs

\* lines 336-345
applyStrokeWidth(attrs, inlineStyles, cssStyles, edge) ==
  LET strokeWidth == OrElse(Get(inlineStyles, "stroke-width"), Get(cssStyles, "stroke-width"))
  IN IF ~hasAttribute(attrs, "stroke-width") /\ Truthy(strokeWidth)
     THEN IF strokeWidth # Num(0, "") /\ strokeWidth # Num(0, "px")
            THEN setAttribute(attrs, "stroke-width", strokeWidth)
          ELSE IF edge THEN setAttribute(attrs, "stroke-width", Px(2))
          ELSE attrs
     ELSE attrs

\* lines 346-348
applyOpacity(attrs, inlineStyles, cssStyles) ==
  LET opacity == OrElse(Get(inlineStyles, "opacity"), Get(cssStyles, "opacity"))
  IN IF ~hasAttribute(attrs, "opacity") /\ Truthy(opacity)
     THEN setAttribute(attrs, "opacity", opacity)
     ELSE attrs

\* the body of the first forEach for one element
bakeElement(d, i, rules) ==
  LET a0 == d.nodes[i].attrs
      cssStyles == getApplicableStyles(d, i, rules, svgIdOf(d))
      inlineStyles == parseInlineStyle(a0)
      edge == isEdgePath(a0)
      a1 == IF edge THEN setAttribute(a0, "data-is-edge-path", Kw("true")) ELSE a0
      a2 == applyStyle(a1, "fill", inlineStyles, cssStyles)
      a3 == applyStyle(a2, "stroke", inlineStyles, cssStyles)
      a4 == applyStrokeWidth(a3, inlineStyles, cssStyles, edge)
  IN applyOpacity(a4, inlineStyles, cssStyles)

\* one pass that bakes and strips each element in turn: an element is
\* resolved against a tree whose earlier elements have lost class and style
firstPassStripping(d, rules) ==
  [d EXCEPT !.nodes = [i \in 1..Len(d.nodes) |->
     IF closestMarker(d.nodes, i) THEN d.nodes[i]
     ELSE LET earlier == [d EXCEPT !.nodes = [j \in 1..Len(d.nodes) |->
                            IF j < i /\ ~closestMarker(d.nodes, j)
                            THEN [d.nodes[j] EXCEPT
                                    !.attrs = removeAttributes(d.nodes[j].attrs, <<"style", "class">>)]
                            ELSE d.nodes[j]]]
          IN [d.nodes[i] EXCEPT
                !.attrs = removeAttributes(bakeElement(earlier, i, rules), <<"style", "class">>)]]]

firstPass(d, rules) ==
  [d EXCEPT !.nodes = [i \in 1..Len(d.nodes) |->
     IF closestMarker(d.nodes, i) THEN d.nodes[i]
     ELSE [d.nodes[i] EXCEPT !.attrs = bakeElement(d, i, rules)]]]

---------------------------------------------------------------------------
(* Lines 351-368: second pass, class and style removed                     *)

stripElement(attrs) ==
  LET a1 == IF getAttribute(attrs, "data-is-edge-path") = Kw("true")
            THEN removeAttribute(setAttribute(attrs, "fill", None), "data-is-edge-path")
            ELSE attrs
  IN removeAttributes(a1, <<"style", "class">>)

secondPass(d) ==
  [d EXCEPT !.nodes = [i \in 1..Len(d.nodes) |->
     IF closestMarker(d.nodes, i) THEN d.nodes[i]
     ELSE [d.nodes[i] EXCEPT !.attrs = stripElement(d.nodes[i].attrs)]]]

---------------------------------------------------------------------------
(* Lines 370-398: markers recoloured                                       *)

MarkerShapeTags == {"path", "polygon", "circle", "polyline"}

\* markerColors.get(marker.getAttribute('id')) || '#333333'
markerColorOf(attrs, colors) ==
  LET markerId == getAttribute(attrs, "id")
  IN IF markerId.k = "kw" /\ markerId.name \in DOMAIN colors
     THEN OrElse(colors[markerId.name], DefaultColor)
     ELSE DefaultColor

recolorShape(attrs, color) ==
  removeAttributes(setAttribute(setAttribute(attrs, "fill", color), "stroke", None),
                   <<"style", "class", "stroke-width", "stroke-dasharray">>)

\* one iteration of markers.forEach, for the marker at index m
processMarker(nodes, m, colors) ==
  LET color == markerColorOf(nodes[m].attrs, colors)
  IN [i \in 1..Len(nodes) |->
        IF i = m
          THEN [nodes[i] EXCEPT !.attrs = removeAttributes(nodes[i].attrs, <<"class", "style">>)]
        ELSE IF i \in Descendants(nodes, m) /\ nodes[i].tag \in MarkerShapeTags
          THEN [nodes[i] EXCEPT !.attrs = recolorShape(nodes[i].attrs, color)]
        ELSE nodes[i]]

RECURSIVE processMarkersFrom(_, _, _)
processMarkersFrom(nodes, markers, colors) ==
  IF markers = <<>> THEN nodes
  ELSE processMarkersFrom(processMarker(nodes, Head(markers), colors), Tail(markers), colors)

processMarkers(d, colors) ==
  [d EXCEPT !.nodes =
     processMarkersFrom(d.nodes, elementsByTag(d.nodes, "marker", Len(d.nodes)), colors)]

---------------------------------------------------------------------------
(* Lines 427-454: wrapText                                                 *)

\* text.replace(/\s+/g, ' ')
RECURSIVE collapseSpaces(_)
collapseSpaces(t) ==
  IF Len(t) < 2 THEN t
  ELSE IF t[1] = " " /\ t[2] = " " THEN collapseSpaces(Tail(t))
  ELSE <<t[1]>> \o collapseSpaces(Tail(t))

\* cleanText.split(' ')
RECURSIVE splitOnSpace(_, _)
splitOnSpace(t, word) ==
  IF t = <<>> THEN <<word>>
  ELSE IF Head(t) = " " THEN <<word>> \o splitOnSpace(Tail(t), <<>>)
  ELSE splitOnSpace(Tail(t), Append(word, Head(t)))

\* an average character width of fontSize * 0.4
exceedsWidthNarrowChars(testLine, fontSize, maxWidth) ==
  Len(testLine) * fontSize * 4 > maxWidth * 10

\* testLine.length * avgCharWidth > maxWidth, avgCharWidth = fontSize * 0.5,
\* with fontSize and maxWidth in tenths
exceedsWidth(testLine, fontSize, maxWidth) == Len(testLine) * fontSize * 5 > maxWidth * 10

\* words.forEach (lines 437-447): the state [lines, currentLine] after the words
RECURSIVE wrapWords(_, _, _, _)
wrapWords(words, st, fontSize, maxWidth) ==
  IF words = <<>> THEN st
  ELSE LET word == Head(words)
           testLine == IF st.currentLine # <<>> THEN st.currentLine \o <<" ">> \o word ELSE word
           next == IF exceedsWidth(testLine, fontSize, maxWidth) /\ st.currentLine # <<>>
                   THEN [lines |-> Append(st.lines, st.currentLine), currentLine |-> word]
                   ELSE [lines |-> st.lines, currentLine |-> testLine]
       IN wrapWords(Tail(words), next, fontSize, maxWidth)

wrapText(text, maxWidth, fontSizeValue) ==
  LET cleanText == trim(collapseSpaces(text))
      words == splitOnSpace(cleanText, <<>>)
      fontSize == parseFloatOr(fontSizeValue, 160)
      st == wrapWords(words, [lines |-> <<>>, currentLine |-> <<>>], fontSize, maxWidth)
      lines == IF st.currentLine # <<>> THEN Append(st.lines, st.currentLine) ELSE st.lines
  IN IF Len(lines) > 0 THEN lines ELSE <<cleanText>>

---------------------------------------------------------------------------
(* Lines 400-479: foreignObjects replaced by text elements                 *)

\* the position of element i in the list
RECURSIVE indexIn(_, _)
indexIn(list, i) == IF Head(list) = i THEN 1 ELSE 1 + indexIn(Tail(list), i)

underForeignObject(nodes, i) ==
  \E j \in Ancestors(nodes, i) : nodes[j].tag = "foreignObject"

\* the attributes of the created text element (lines 409-424)
textElementAttrs(data) ==
  LET centerX == data.x + data.width \div 2
      centerY == data.y + data.height \div 2
      base == [a \in {"x", "y", "text-anchor", "dominant-baseline", "fill",
                      "font-size", "font-family", "stroke"} |->
                CASE a = "x" -> numToString(centerX)
                  [] a = "y" -> numToString(centerY)
                  [] a = "text-anchor" -> Kw("middle")
                  [] a = "dominant-baseline" -> Kw("middle")
                  [] a = "fill" -> data.styles.color
                  [] a = "font-size" -> data.styles.fontSize
                  [] a = "font-family" -> data.styles.fontFamily
                  [] a = "stroke" -> None]
  IN IF data.styles.fontWeight # Kw("normal") /\ data.styles.fontWeight # Kw("400")
     THEN setAttribute(base, "font-weight", data.styles.fontWeight)
     ELSE base

\* y of the tspan of line lineIndex (0-based) out of n (lines 460-467)
tspanY(data, lineIndex, n) ==
  IF isNaNValue(data.styles.fontSize) THEN NaNString
  ELSE numToString(data.y + data.height \div 2
                     + (12 * data.styles.fontSize.v * (2 * lineIndex + 1 - n)) \div 20)

\* the elements that take the place of a foreignObject, below newParent, the
\* text element at index at
textElementFor(data, newParent, at) ==
  LET allLines == wrapText(data.textContent, data.width, data.styles.fontSize)
      n == Len(allLines)
  IN IF n > 1
     THEN <<Node("text", newParent, textElementAttrs(data), <<>>)>>
            \o [l \in 1..n |->
                  Node("tspan", at,
                       [a \in {"x", "y"} |->
                          IF a = "x" THEN numToString(data.x + data.width \div 2)
                          ELSE tspanY(data, l - 1, n)],
                       IF allLines[l] = <<>> THEN <<" ">> ELSE allLines[l])]
     ELSE <<Node("text", newParent, textElementAttrs(data), allLines[1])>>

\* what the tree holds after the loop in place of element i
RECURSIVE replacedUpTo(_, _, _)
replacedUpTo(d, td, n) ==
  IF n = 0 THEN [nodes |-> <<>>, at |-> <<>>]
  ELSE LET before == replacedUpTo(d, td, n - 1)
           el == d.nodes[n]
           at == Len(before.nodes) + 1
           newParent == IF el.parent = 0 THEN 0 ELSE before.at[el.parent]
           fos == elementsByTag(d.nodes, "foreignObject", Len(d.nodes))
           emitted ==
             IF underForeignObject(d.nodes, n) THEN <<>>
             ELSE IF el.tag = "foreignObject"
               THEN LET index == indexIn(fos, n)
                    IN IF index > Len(td) \/ td[index].textContent = <<>> THEN <<>>
                       ELSE textElementFor(td[index], newParent, at)
             ELSE <<[el EXCEPT !.parent = newParent]>>
       IN [nodes |-> before.nodes \o emitted, at |-> Append(before.at, at)]

replaceForeignObjects(d, td) ==
  [d EXCEPT !.nodes = replacedUpTo(d, td, Len(d.nodes)).nodes]

---------------------------------------------------------------------------
(* Lines 482-654: calculateBoundingBox                                     *)

\* the transform attribute, as what the two regular expressions of lines 495
\* and 510 find in it: matrix = <<a, d, e, f>> or <<>>, translate = <<x, y>>
\* or <<>>; a and d are whole numbers, e, f, x and y are in tenths
Transform(matrix, translate) == [k |-> "transform", matrix |-> matrix, translate |-> translate]
Translate(x, y) == Transform(<<>>, <<x, y>>)
Matrix(a, d, e, f) == Transform(<<a, d, e, f>>, <<>>)

IdentityTransform == [tx |-> 0, ty |-> 0, scaleX |-> 1, scaleY |-> 1]

\* one iteration of the while loop of getTransform (lines 492-515)
transformStep(acc, attrs) ==
  IF ~hasAttribute(attrs, "transform") \/ attrs["transform"].k # "transform" THEN acc
  ELSE LET t == attrs["transform"]
           m == IF t.matrix # <<>>
                THEN LET a == IF t.matrix[1] = 0 THEN 1 ELSE t.matrix[1]
                         dd == IF t.matrix[2] = 0 THEN 1 ELSE t.matrix[2]
                     IN [tx |-> acc.tx * a + t.matrix[3],
                         ty |-> acc.ty * dd + t.matrix[4],
                         scaleX |-> acc.scaleX * a,
                         scaleY |-> acc.scaleY * dd]
                ELSE acc
       IN IF t.translate # <<>>
          THEN [m EXCEPT !.tx = m.tx + t.translate[1] * m.scaleX,
                         !.ty = m.ty + t.translate[2] * m.scaleY]
          ELSE m

\* the loop of getTransform from element current up to the root
RECURSIVE getTransformFrom(_, _, _)
getTransformFrom(nodes, current, acc) ==
  IF current = 0 THEN acc
  ELSE getTransformFrom(nodes, nodes[current].parent, transformStep(acc, nodes[current].attrs))

getTransform(nodes, element) == getTransformFrom(nodes, element, IdentityTransform)

\* updateBounds(x, y, width, height, element): the two corners it merges
\* into the running minimum and maximum
updateBounds(x, y, width, height, t) ==
  {<<x * t.scaleX + t.tx, y * t.scaleY + t.ty>>,
   <<(x + width) * t.scaleX + t.tx, (y + height) * t.scaleY + t.ty>>}

\* the coordinate pairs of a path or points attribute (lines 600-611): each
\* pair whose two numbers parse, transformed
coordPoints(attrs, name, t) ==
  LET coords == IF hasAttribute(attrs, name) /\ attrs[name].k = "coords"
                THEN attrs[name].toks ELSE <<>>
  IN {<<coords[2 * j - 1].v * t.scaleX + t.tx, coords[2 * j].v * t.scaleY + t.ty>> :
        j \in {q \in 1..(Len(coords) \div 2) :
                 ~isNaNValue(coords[2 * q - 1]) /\ ~isNaNValue(coords[2 * q])}}

Coords(toks) == [k |-> "coords", toks |-> toks]

\* what element i merges into the bounds
elementPoints(nodes, i) ==
  LET el == nodes[i]
      a == el.attrs
      t == getTransform(nodes, i)
      num(name) == parseFloatOr(getAttribute(a, name), 0)
  IN IF closestMarker(nodes, i) THEN {}
     ELSE CASE el.tag = "rect" ->
                 updateBounds(num("x"), num("y"), num("width"), num("height"), t)
            [] el.tag = "circle" ->
                 updateBounds(num("cx") - num("r"), num("cy") - num("r"),
                              num("r") * 2, num("r") * 2, t)
            [] el.tag = "ellipse" ->
                 updateBounds(num("cx") - num("rx"), num("cy") - num("ry"),
                              num("rx") * 2, num("ry") * 2, t)
            [] el.tag = "text" ->
                 LET fontSize == parseFloatOr(getAttribute(a, "font-size"), 160)
                     length == Len(textContentOf(nodes, i))
                     estimatedWidth == (length * fontSize * 6) \div 10
                     estimatedHeight == (fontSize * 12) \div 10
                 IN updateBounds(num("x") - estimatedWidth \div 2,
                                 num("y") - estimatedHeight \div 2,
                                 estimatedWidth, estimatedHeight, t)
            [] el.tag = "path" -> coordPoints(a, "d", t)
            [] el.tag \in {"polygon", "polyline"} -> coordPoints(a, "points", t)
            [] OTHER -> {}

NoBox == [has |-> FALSE]

calculateBoundingBox(nodes) ==
  LET points == UNION {elementPoints(nodes, i) : i \in 1..Len(nodes)}
  IN IF points = {} THEN NoBox
     ELSE [has |-> TRUE,
           minX |-> Min({p[1] : p \in points}), minY |-> Min({p[2] : p \in points}),
           maxX |-> Max({p[1] : p \in points}), maxY |-> Max({p[2] : p \in points})]

---------------------------------------------------------------------------
(* Lines 656-679: the canvas fitted to the box                             *)

padding == 10


ViewBox(x, y, w, h) == [k |-> "viewBox", x |-> x, y |-> y, w |-> w, h |-> h]

\* the padding added once instead of on both sides
fitCanvasPaddedOnce(d, box) ==
  IF ~box.has THEN d
  ELSE LET newWidth == ceilUnits(box.maxX - box.minX + padding * 10)
           newHeight == ceilUnits(box.maxY - box.minY + padding * 10)
           a1 == setAttribute(d.root, "viewBox",
                              ViewBox(box.minX - padding * 10, box.minY - padding * 10,
                                      newWidth, newHeight))
           a2 == setAttribute(a1, "width", numToString(newWidth * 10))
       IN [d EXCEPT !.root = setAttribute(a2, "height", numToString(newHeight * 10))]

\* the canvas written also when there is no box, as for an empty box at 0,0
fitCanvasAlways(d, box) ==
  LET b == IF box.has THEN box ELSE [has |-> TRUE, minX |-> 0, minY |-> 0, maxX |-> 0, maxY |-> 0]
      newWidth == ceilUnits(b.maxX - b.minX + padding * 2 * 10)
      newHeight == ceilUnits(b.maxY - b.minY + padding * 2 * 10)
      a1 == setAttribute(d.root, "viewBox",
                         ViewBox(b.minX - padding * 10, b.minY - padding * 10,
                                 newWidth, newHeight))
      a2 == setAttribute(a1, "width", numToString(newWidth * 10))
  IN [d EXCEPT !.root = setAttribute(a2, "height", numToString(newHeight * 10))]

fitCanvas(d, box) ==
  IF ~box.has THEN d
  ELSE LET contentWidth == box.maxX - box.minX
           contentHeight == box.maxY - box.minY
           newWidth == ceilUnits(contentWidth + padding * 2 * 10)
           newHeight == ceilUnits(contentHeight + padding * 2 * 10)
           viewBoxX == box.minX - padding * 10
           viewBoxY == box.minY - padding * 10
           a1 == setAttribute(d.root, "viewBox", ViewBox(viewBoxX, viewBoxY, newWidth, newHeight))
           a2 == setAttribute(a1, "width", numToString(newWidth * 10))
       IN [d EXCEPT !.root = setAttribute(a2, "height", numToString(newHeight * 10))]

---------------------------------------------------------------------------
(* Lines 681-714: root cleanup and serialization                           *)

\* rootStyle.match(/max-width:\s*([^;]+)/): the first max-width declaration
RECURSIVE maxWidthMatch(_)
maxWidthMatch(decls) ==
  IF decls = <<>> THEN <<>>
  ELSE IF Head(decls).prop = "max-width" THEN <<Head(decls)>>
  ELSE maxWidthMatch(Tail(decls))

cleanRoot(attrs) ==
  LET a1 == removeAttribute(attrs, "class")
  IN IF hasAttribute(a1, "style") /\ a1["style"] # <<>>
     THEN IF maxWidthMatch(a1["style"]) # <<>>
          THEN setAttribute(a1, "style", maxWidthMatch(a1["style"]))
          ELSE removeAttribute(a1, "style")
     ELSE a1

\* XMLSerializer writes an element without content as <tag/>, with no end tag
hasEndTag(nodes, k) == Descendants(nodes, k) # {} \/ nodes[k].text # <<>>

\* the markers whose </marker> lies between the start tags of i - 1 and i
markerEndsBefore(nodes, i) ==
  {k \in ({i - 1} \cup Ancestors(nodes, i - 1)) \ ({0} \cup Ancestors(nodes, i)) :
     nodes[k].tag = "marker" /\ hasEndTag(nodes, k)}

\* a </marker> follows the start tag of i in the text
markerEndAfter(nodes, i) ==
  \E k \in (i..Len(nodes)) \cup Ancestors(nodes, i) :
     nodes[k].tag = "marker" /\ hasEndTag(nodes, k)

\* /(<marker[^>]*>[\s\S]*?<\/marker>)/g read from the left: a block opens at
\* a <marker start tag outside a block and closes at the first </marker>
RECURSIVE inMarkerBlock(_, _)
inMarkerBlock(nodes, i) ==
  IF i = 0 THEN FALSE
  ELSE \/ inMarkerBlock(nodes, i - 1) /\ markerEndsBefore(nodes, i) = {}
       \/ nodes[i].tag = "marker"

\* lines 704-712: class and style deleted from the start tags of markers and
\* from the text of every marker block
cleanMarkerBlocks(nodes) ==
  [i \in 1..Len(nodes) |->
     IF nodes[i].tag = "marker" \/ (inMarkerBlock(nodes, i) /\ markerEndAfter(nodes, i))
     THEN [nodes[i] EXCEPT !.attrs = removeAttributes(nodes[i].attrs, <<"class", "style">>)]
     ELSE nodes[i]]

\* the returned string: the XML declaration, then the serialized tree
serialize(d) ==
  [xmlDeclaration |-> TRUE, root |-> cleanRoot(d.root), css |-> d.css,
   nodes |-> cleanMarkerBlocks(d.nodes)]

\* the whole call, as its caller sees it: the Error thrown, or the string
\* returned
convertSvgToInkscape(content) ==
  IF ~content.svg THEN [thrown |-> "No SVG element found"]
  ELSE LET rules == parseCSSRules(content.css)
           data == extractTextData(content, rules)
           colors == extractMarkerColors(content, rules)
           baked == firstPass(prepareRoot(content), rules)
           recolored == processMarkers(secondPass(baked), colors)
           replaced == replaceForeignObjects(recolored, data)
       IN [thrown |-> "",
           out |-> serialize(fitCanvas(replaced, calculateBoundingBox(replaced.nodes)))]

---------------------------------------------------------------------------
(* App: the code of the active tab and its history (src/src/App.jsx lines  *)
(* 77-134, src/src/hooks/useHistory.js).  A handler works on the values    *)
(* of the render that created it: the buttons and the textarea carry the   *)
(* handlers of the latest render, the keydown listener those of the latest *)
(* render in which canUndo or canRedo changed (the effect's dependencies,  *)
(* App.jsx line 620).  Indices count from 0 as in the source.              *)

\* the texts the user may type
Codes == {"graph A", "graph B", "graph C"}

defaultDiagram == "graph A"

\* 'Limit history to last 50 items'
historyLimit == 50

\* the longest history the edits may build
MaxHistory == 4

\* a tab (lines 61-63, 143-147)
Tab(id, name, code) == [id |-> id, name |-> name, code |-> code]

\* `Diagram ${nextId}`
DiagramName(id) == "Diagram " \o ToString(id)

\* the tab list of a first visit
defaultTabs == <<Tab(1, DiagramName(1), defaultDiagram)>>

\* tabs.filter(tab => tab.id !== tabId)
RECURSIVE withoutId(_, _)
withoutId(t, tabId) ==
  IF t = <<>> THEN <<>>
  ELSE (IF Head(t).id # tabId THEN <<Head(t)>> ELSE <<>>) \o withoutId(Tail(t), tabId)

\* tabs.find(tab => tab.id === activeTabId) || tabs[0] (line 77); undefined
\* for an empty list
NoTab == [id |-> 0, name |-> "undefined", code |-> "undefined"]

activeTabOf(t, a) ==
  IF \E k \in DOMAIN t : t[k].id = a
  THEN t[Min({k \in DOMAIN t : t[k].id = a})]
  ELSE IF t # <<>> THEN t[1] ELSE NoTab

\* what a render hands to its handlers
Render(h, i, t, a) == [history |-> h, currentIndex |-> i, tabs |-> t, activeTabId |-> a]

\* history[currentIndex], undefined outside the array
current(r) ==
  IF r.currentIndex + 1 \in DOMAIN r.history THEN r.history[r.currentIndex + 1]
  ELSE "undefined"

canUndo(r) == r.currentIndex > 0

canRedo(r) == r.currentIndex < Len(r.history) - 1

\* updateTabCode: the tabs of the render with the active tab's code replaced
updateTabCode(r, code) ==
  [k \in DOMAIN r.tabs |->
     IF r.tabs[k].id = r.activeTabId THEN [r.tabs[k] EXCEPT !.code = code] ELSE r.tabs[k]]

\* the effect at lines 595-620 runs again when its dependencies changed
listenerAfter(h, i, t, a) ==
  IF <<canUndo(Render(h, i, t, a)), canRedo(Render(h, i, t, a))>>
       # <<canUndo(keyHandlers), canRedo(keyHandlers)>>
  THEN Render(h, i, t, a)
  ELSE keyHandlers

\* the state after the handlers of render r have set history, currentIndex
\* and tabs, and App has rendered again
Commit(h, i, t) ==
  /\ history' = h
  /\ currentIndex' = i
  /\ tabs' = t
  /\ keyHandlers' = listenerAfter(h, i, t, activeTabId)
  /\ UNCHANGED <<converterVars, rendererVars, exporterVars, uploadVars, activeTabId, nextId>>

\* push that keeps every entry
pushedWithoutLimit(r, value) ==
  [history |-> SubSeq(history, 1, Min({r.currentIndex + 1, Len(history)})) \o <<value>>,
   currentIndex |-> r.currentIndex + 1]

\* push of useHistory, with the currentIndex of the render
pushed(r, value) ==
  LET newHistory == SubSeq(history, 1, Min({r.currentIndex + 1, Len(history)})) \o <<value>>
  IN IF Len(newHistory) > historyLimit
     THEN [history |-> Tail(newHistory), currentIndex |-> r.currentIndex]
     ELSE [history |-> newHistory, currentIndex |-> r.currentIndex + 1]

\* undo of useHistory (lines 24-28): the index it sets
undo(r) == IF r.currentIndex > 0 THEN r.currentIndex - 1 ELSE currentIndex

\* redo of useHistory (lines 30-34)
redo(r) == IF r.currentIndex < Len(r.history) - 1 THEN r.currentIndex + 1 ELSE currentIndex

\* handleCodeChange (lines 116-120)
handleCodeChange(r, newCode) ==
  Commit(pushed(r, newCode).history, pushed(r, newCode).currentIndex,
         updateTabCode(r, newCode))

\* handleUndo (lines 122-127): undo() sets the index, updateTabCode gets the
\* history.current of the render
handleUndo(r) ==
  /\ canUndo(r)
  /\ Commit(history, r.currentIndex - 1, updateTabCode(r, current(r)))

\* handleRedo (lines 129-134)
handleRedo(r) ==
  /\ canRedo(r)
  /\ Commit(history, r.currentIndex + 1, updateTabCode(r, current(r)))

LatestRender == Render(history, currentIndex, tabs, activeTabId)

TypeCode ==
  /\ currentIndex + 1 < MaxHistory
  /\ \E newCode \in Codes : handleCodeChange(LatestRender, newCode)

ClickUndo == handleUndo(LatestRender)

ClickRedo == handleRedo(LatestRender)

KeyUndo == handleUndo(keyHandlers)

KeyRedo == handleRedo(keyHandlers)

\* the pushes whose value is free; later ones push the default diagram
MaxFreePushes == 2

PushValues == IF Len(history) <= MaxFreePushes THEN Codes ELSE {defaultDiagram}

\* the hook alone, called through the functions of the latest render
HookPush(value) ==
  /\ history' = pushed(LatestRender, value).history
  /\ currentIndex' = pushed(LatestRender, value).currentIndex
  /\ UNCHANGED <<converterVars, rendererVars, exporterVars, uploadVars, tabs, activeTabId, nextId,
                 keyHandlers>>

HookUndo ==
  /\ currentIndex' = undo(LatestRender)
  /\ UNCHANGED <<converterVars, rendererVars, exporterVars, uploadVars, history, tabs, activeTabId,
                 nextId, keyHandlers>>

HookRedo ==
  /\ currentIndex' = redo(LatestRender)
  /\ UNCHANGED <<converterVars, rendererVars, exporterVars, uploadVars, history, tabs, activeTabId,
                 nextId, keyHandlers>>

NextHistory ==
  \/ \E value \in PushValues : HookPush(value)
  \/ HookUndo
  \/ HookRedo

NextEditor ==
  \/ TypeCode
  \/ ClickUndo
  \/ ClickRedo
  \/ KeyUndo
  \/ KeyRedo

\* the tabs one session may hold, and the ids it may give out
MaxTabs == 3

MaxTabId == 4

\* the state after a handler has set tabs, activeTabId and nextId: when
\* activeTabId changed, the effect at lines 81-85 pushes the code of the
\* active tab unless it is the current entry; then App renders again
TabCommit(t, a, n) ==
  LET code == activeTabOf(t, a).code
      push == a # activeTabId /\ t # <<>> /\ current(LatestRender) # code
      after == IF push THEN pushed(Render(history, currentIndex, t, a), code)
               ELSE [history |-> history, currentIndex |-> currentIndex]
  IN /\ push => currentIndex + 1 < MaxHistory
     /\ tabs' = t
     /\ activeTabId' = a
     /\ nextId' = n
     /\ history' = after.history
     /\ currentIndex' = after.currentIndex
     /\ keyHandlers' = listenerAfter(after.history, after.currentIndex, t, a)
     /\ UNCHANGED <<converterVars, rendererVars, exporterVars, uploadVars>>

\* addTab (lines 142-151)
AddTab ==
  /\ Len(tabs) < MaxTabs
  /\ nextId <= MaxTabId
  /\ TabCommit(Append(tabs, Tab(nextId, DiagramName(nextId), defaultDiagram)), nextId, nextId + 1)

\* closeTab that does not touch activeTabId
closeTabKeepingActive(tabId) ==
  IF Len(tabs) = 1 THEN TabCommit(tabs, activeTabId, nextId)
  ELSE TabCommit(withoutId(tabs, tabId), activeTabId, nextId)

\* closeTab (lines 153-162); with no tab left, newTabs[0].id throws after
\* setTabs was called
closeTab(tabId) ==
  LET newTabs == withoutId(tabs, tabId)
  IN IF Len(tabs) = 1 THEN TabCommit(tabs, activeTabId, nextId)
     ELSE IF activeTabId = tabId /\ newTabs # <<>>
          THEN TabCommit(newTabs, newTabs[1].id, nextId)
          ELSE TabCommit(newTabs, activeTabId, nextId)

\* the close button of a tab (lines 704-712)
CloseTab == \E k \in DOMAIN tabs : closeTab(tabs[k].id)

\* a click on the name of a tab (line 701)
SelectTab == \E k \in DOMAIN tabs : TabCommit(tabs, tabs[k].id, nextId)

\* the names the user may type
TabNames == {"Diagram 1", "Flow"}

\* renameTab (lines 164-168)
renameTab(tabId, newName) ==
  TabCommit([k \in DOMAIN tabs |->
               IF tabs[k].id = tabId THEN [tabs[k] EXCEPT !.name = newName] ELSE tabs[k]],
            activeTabId, nextId)

RenameTab == \E k \in DOMAIN tabs : \E newName \in TabNames : renameTab(tabs[k].id, newName)

\* the page is loaded again: tabs and activeTabId come from the browser's
\* storage (lines 61-64), every useState starts from its initial value
\* (line 67), useHistory from the code of the active tab (line 78)
Reload ==
  /\ tabs # <<>>
  /\ nextId' = 2
  /\ history' = <<activeTabOf(tabs, activeTabId).code>>
  /\ currentIndex' = 0
  /\ keyHandlers' = Render(<<activeTabOf(tabs, activeTabId).code>>, 0, tabs, activeTabId)
  /\ UNCHANGED <<tabs, activeTabId>>
  /\ UNCHANGED <<converterVars, rendererVars, exporterVars, uploadVars>>

NextTabs ==
  \/ AddTab
  \/ CloseTab
  \/ SelectTab
  \/ RenameTab

NextVisits ==
  \/ AddTab
  \/ CloseTab
  \/ RenameTab
  \/ Reload

\* App after its first render
EditorMounted ==
  /\ history = <<defaultDiagram>>
  /\ currentIndex = 0
  /\ tabs = defaultTabs
  /\ activeTabId = 1
  /\ nextId = 2
  /\ keyHandlers = Render(<<defaultDiagram>>, 0, defaultTabs, 1)

---------------------------------------------------------------------------
(* MermaidRenderer (src/unnamed/part_000).  The component shows either the *)
(* container div that carries mermaidRef, or, when error is set, the error *)
(* div, which carries no ref: mermaidRef.current is null while the error   *)
(* is shown.  The effect on [chart] runs in the commit of the change; each *)
(* mermaid.render call stays in flight until its promise settles.          *)

\* diagrams mermaid.render resolves for
ValidCharts == {"graph A", "graph B"}

\* a text mermaid.render rejects
InvalidCharts == {"graph ("}

Charts == ValidCharts \cup InvalidCharts \cup {""}

\* the chart changes the user may make
MaxChanges == 3

Null == "null"

\* err.message of a rejected render
ParseError == "Parse error"

\* err.message of the assignment to innerHTML of a null ref (line 47)
NullRefError == "Cannot set properties of null"

\* the svg mermaid.render resolves with
Svg(c) == "<svg>" \o c \o "</svg>"

Container(html) == [current |-> TRUE, innerHTML |-> html]

NoContainer == [current |-> FALSE, innerHTML |-> ""]

\* setError(message) and the render that follows (lines 56-65)
setError(message) ==
  /\ error' = message
  /\ mermaidRef' = IF message = Null THEN mermaidRef ELSE NoContainer
  /\ errorSince' = IF error = Null /\ message # Null THEN changes ELSE errorSince

\* renderDiagram up to its await (lines 33-45)
renderDiagram(c) ==
  IF ~mermaidRef.current \/ c = ""
  THEN UNCHANGED <<error, mermaidRef, pending, errorSince>>
  ELSE /\ error' = Null
       /\ mermaidRef' = Container("")
       /\ pending' = Append(pending, c)
       /\ UNCHANGED errorSince

\* the parent passes a new chart; the effect on [chart] runs
ChangeChart ==
  /\ changes < MaxChanges
  /\ \E c \in Charts \ {chart} :
       /\ chart' = c
       /\ changes' = changes + 1
       /\ renderDiagram(c)
  /\ UNCHANGED <<converterVars, editorVars, exporterVars, uploadVars>>

RemoveAt(q, k) == SubSeq(q, 1, k - 1) \o SubSeq(q, k + 1, Len(q))

\* a mermaid.render promise settles (lines 46-52)
SettleRender ==
  /\ \E k \in DOMAIN pending :
       /\ pending' = RemoveAt(pending, k)
       /\ IF pending[k] \in ValidCharts
          THEN IF mermaidRef.current
               THEN /\ mermaidRef' = Container(Svg(pending[k]))
                    /\ UNCHANGED <<error, errorSince>>
               ELSE setError(NullRefError)
          ELSE setError(ParseError)
  /\ UNCHANGED <<chart, changes>>
  /\ UNCHANGED <<converterVars, editorVars, exporterVars, uploadVars>>

NextRenderer ==
  \/ ChangeChart
  \/ SettleRender

\* MermaidRenderer after its first render and effect
RendererMounted ==
  /\ chart = defaultDiagram
  /\ error = Null
  /\ mermaidRef = Container("")
  /\ pending = <<defaultDiagram>>
  /\ changes = 0
  /\ errorSince = 0

---------------------------------------------------------------------------
(* exportSVG (src/src/App.jsx lines 170-484).  preview is the svg element  *)
(* of the rendered diagram (mermaidRef.current.getSvgElement()), a         *)
(* document without svg when nothing is rendered.  The function reads the  *)
(* computed styles of the preview, clones it and works on the clone.       *)

Document(root, css, nodes) == [svg |-> TRUE, root |-> root, css |-> css, nodes |-> nodes]

\* a content in which doc.querySelector('svg') finds nothing
NoSvgDocument == [svg |-> FALSE, root |-> NoAttrs, css |-> <<>>, nodes |-> <<>>]

NoOutput == [xmlDeclaration |-> FALSE]

\* the value a property has for the browser when nothing sets it
InitialValue(prop) ==
  CASE prop = "fill" -> Rgb(0, 0, 0)
    [] prop = "stroke" -> None
    [] prop = "color" -> Rgb(0, 0, 0)
    [] prop = "font-size" -> Px(16)
    [] prop = "font-family" -> Kw("serif")
    [] prop = "font-weight" -> Kw("400")

\* window.getComputedStyle(el)[prop]: the inline declaration, else the
\* stylesheet, else the presentation attribute, else the parent's value
RECURSIVE getComputedStyle(_, _, _)
getComputedStyle(d, el, prop) ==
  IF el = 0
  THEN LET inlineStyles == parseInlineStyle(d.root)
       IN OrElse(Get(inlineStyles, prop), InitialValue(prop))
  ELSE LET inlineStyles == parseInlineStyle(d.nodes[el].attrs)
           sheet == getApplicableStyles(d, el, parseCSSRules(d.css), svgIdOf(d))
           own == OrElse(Get(inlineStyles, prop),
                  OrElse(Get(sheet, prop), getAttribute(d.nodes[el].attrs, prop)))
       IN IF Truthy(own) THEN own ELSE getComputedStyle(d, d.nodes[el].parent, prop)

ExportDefaultTextStyles ==
  [color |-> DefaultColor, fontSize |-> Px(14),
   fontFamily |-> Kw("Arial, sans-serif"), fontWeight |-> Kw("normal")]

\* styles of one foreignObject (lines 218-235)
exportTextStyles(d, fo) ==
  LET styled == {j \in Descendants(d.nodes, fo) : d.nodes[j].tag \in {"div", "span", "p", "body"}}
  IN IF styled = {} THEN ExportDefaultTextStyles
     ELSE LET styledElement == Min(styled)
          IN [color |-> rgbToHex(OrElse(getComputedStyle(d, styledElement, "color"), DefaultColor)),
              fontSize |-> OrElse(getComputedStyle(d, styledElement, "font-size"), Px(14)),
              fontFamily |-> OrElse(getComputedStyle(d, styledElement, "font-family"),
                                    Kw("Arial, sans-serif")),
              fontWeight |-> OrElse(getComputedStyle(d, styledElement, "font-weight"),
                                    Kw("normal"))]

\* textData of exportSVG (lines 187-238); getBBox gives the box of the
\* foreignObject's own x, y, width and height
extractExportTextData(d) ==
  LET fos == elementsByTag(d.nodes, "foreignObject", Len(d.nodes))
  IN [idx \in 1..Len(fos) |->
        LET fo == fos[idx]
            a == d.nodes[fo].attrs
        IN [textContent |-> trim(brToSpace(textContentOf(d.nodes, fo))),
            x |-> parseFloatOr(getAttribute(a, "x"), 0),
            y |-> parseFloatOr(getAttribute(a, "y"), 0),
            width |-> parseFloatOr(getAttribute(a, "width"), 0),
            height |-> parseFloatOr(getAttribute(a, "height"), 0),
            styles |-> exportTextStyles(d, fo)]]

\* elementStyles (lines 240-249): computed fill and stroke by element index
extractElementStyles(d) ==
  [index \in 1..Len(d.nodes) |->
     [fill |-> getComputedStyle(d, index, "fill"),
      stroke |-> getComputedStyle(d, index, "stroke")]]

\* strokeColor of one referencing element (lines 255-257)
exportStrokeColorFor(d, i) ==
  LET stroke == getComputedStyle(d, i, "stroke")
  IN IF Truthy(stroke) /\ stroke # None THEN rgbToHex(stroke) ELSE DefaultColor

\* markerColors of exportSVG after the first n elements (lines 251-279)
RECURSIVE exportMarkerColorsUpTo(_, _)
exportMarkerColorsUpTo(d, n) ==
  IF n = 0 THEN NoAttrs
  ELSE LET before == exportMarkerColorsUpTo(d, n - 1)
           a == d.nodes[n].attrs
       IN IF hasMarkerRef(a)
          THEN Assign(before, [id \in extractMarkerIds(a) |-> exportStrokeColorFor(d, n)])
          ELSE before

extractExportMarkerColors(d) == exportMarkerColorsUpTo(d, Len(d.nodes))

\* the style properties that become attributes (lines 309-325)
StyleAttributes ==
  {"fill", "stroke", "stroke-width", "opacity", "stroke-dasharray", "stroke-linecap",
   "stroke-linejoin"}

\* styleProps.forEach: the declarations applied in their order
RECURSIVE applyStyleProps(_, _)
applyStyleProps(attrs, decls) ==
  IF decls = <<>> THEN attrs
  ELSE LET d == decls[Len(decls)]
           before == applyStyleProps(attrs, SubSeq(decls, 1, Len(decls) - 1))
       IN IF Truthy(d.value) /\ d.prop \in StyleAttributes
          THEN setAttribute(before, d.prop,
                            IF d.prop \in {"fill", "stroke"} THEN rgbToHex(d.value) ELSE d.value)
          ELSE before

Transparent == Rgba(0, 0, 0, 0)

\* the body of allElements.forEach for one element (lines 301-356)
exportElement(attrs, styles) ==
  LET a1 == IF hasAttribute(attrs, "style")
            THEN removeAttribute(applyStyleProps(attrs, attrs["style"]), "style")
            ELSE attrs
      edge == isEdgePath(a1)
      a2 == removeAttribute(a1, "class")
      a3 == IF edge THEN setAttribute(a2, "fill", None) ELSE a2
      a4 == IF ~hasAttribute(a3, "fill") /\ Truthy(styles.fill) /\ styles.fill # None
               /\ styles.fill # Transparent
            THEN setAttribute(a3, "fill", rgbToHex(styles.fill)) ELSE a3
  IN IF ~hasAttribute(a4, "stroke") /\ Truthy(styles.stroke) /\ styles.stroke # None
        /\ styles.stroke # Transparent
     THEN setAttribute(a4, "stroke", rgbToHex(styles.stroke)) ELSE a4

exportElements(d, styles) ==
  [d EXCEPT !.nodes = [i \in 1..Len(d.nodes) |->
     IF closestMarker(d.nodes, i) THEN d.nodes[i]
     ELSE [d.nodes[i] EXCEPT !.attrs = exportElement(d.nodes[i].attrs, styles[i])]]]

\* svgClone.querySelectorAll('defs marker')
underDefs(nodes, i) == \E j \in Ancestors(nodes, i) : j # 0 /\ nodes[j].tag = "defs"

\* markers.forEach (lines 367-382): the marker itself keeps class and style
exportMarkerShape(attrs, color) ==
  removeAttributes(setAttribute(setAttribute(attrs, "fill", color), "stroke", None),
                   <<"style", "class">>)

RECURSIVE exportMarkersFrom(_, _, _)
exportMarkersFrom(nodes, markers, colors) ==
  IF markers = <<>> THEN nodes
  ELSE LET m == Head(markers)
           color == markerColorOf(nodes[m].attrs, colors)
           next == [i \in 1..Len(nodes) |->
                      IF underDefs(nodes, m) /\ i \in Descendants(nodes, m)
                         /\ nodes[i].tag \in MarkerShapeTags
                      THEN [nodes[i] EXCEPT !.attrs = exportMarkerShape(nodes[i].attrs, color)]
                      ELSE nodes[i]]
       IN exportMarkersFrom(next, Tail(markers), colors)

exportMarkers(d, colors) ==
  [d EXCEPT !.nodes =
     exportMarkersFrom(d.nodes, elementsByTag(d.nodes, "marker", Len(d.nodes)), colors)]

\* lines 470-474: the serialized clone after the XML declaration
exportSerialize(d) ==
  [xmlDeclaration |-> TRUE, root |-> d.root, css |-> d.css, nodes |-> d.nodes]

\* the exports one session may make
MaxExports == 2

\* lines 171-172 with an svg element; lines 187-279: everything is read from
\* the preview
ExportRead ==
  /\ exportPc = "Idle"
  /\ preview.svg
  /\ Len(downloads) < MaxExports
  /\ exportTextData' = extractExportTextData(preview)
  /\ elementStyles' = extractElementStyles(preview)
  /\ exportMarkerColors' = extractExportMarkerColors(preview)
  /\ exportPc' = "Read"
  /\ UNCHANGED <<converterVars, editorVars, rendererVars, uploadVars, preview, svgClone, downloads>>

\* lines 281-298: cloneNode(true), namespaces, marker rules removed
ExportClone ==
  /\ exportPc = "Read"
  /\ svgClone' = prepareRoot(preview)
  /\ exportPc' = "Cloned"
  /\ UNCHANGED <<converterVars, editorVars, rendererVars, uploadVars, preview, exportTextData,
                 elementStyles, exportMarkerColors, downloads>>

\* the element step applied to the rendered node as well as to the clone
ExportElementsLive ==
  /\ exportPc = "Cloned"
  /\ svgClone' = exportElements(svgClone, elementStyles)
  /\ preview' = exportElements(preview, elementStyles)
  /\ exportPc' = "Converted"
  /\ UNCHANGED <<converterVars, editorVars, rendererVars, uploadVars, exportTextData,
                 elementStyles, exportMarkerColors, downloads>>

\* lines 300-364
ExportElements ==
  /\ exportPc = "Cloned"
  /\ svgClone' = exportElements(svgClone, elementStyles)
  /\ exportPc' = "Converted"
  /\ UNCHANGED <<converterVars, editorVars, rendererVars, uploadVars, preview, exportTextData,
                 elementStyles, exportMarkerColors, downloads>>

\* lines 366-382
ExportMarkers ==
  /\ exportPc = "Converted"
  /\ svgClone' = exportMarkers(svgClone, exportMarkerColors)
  /\ exportPc' = "MarkersRecolored"
  /\ UNCHANGED <<converterVars, editorVars, rendererVars, uploadVars, preview, exportTextData,
                 elementStyles, exportMarkerColors, downloads>>

\* lines 384-467
ExportForeignObjects ==
  /\ exportPc = "MarkersRecolored"
  /\ svgClone' = replaceForeignObjects(svgClone, exportTextData)
  /\ exportPc' = "TextReconstructed"
  /\ UNCHANGED <<converterVars, editorVars, rendererVars, uploadVars, preview, exportTextData,
                 elementStyles, exportMarkerColors, downloads>>

\* lines 469-483: the download; the locals are gone when the call returns
ExportDownload ==
  /\ exportPc = "TextReconstructed"
  /\ downloads' = Append(downloads, exportSerialize(svgClone))
  /\ exportPc' = "Idle"
  /\ UNCHANGED <<converterVars, editorVars, rendererVars, uploadVars, preview, exportTextData,
                 elementStyles, exportMarkerColors, svgClone>>

NextExport ==
  \/ ExportRead
  \/ ExportClone
  \/ ExportElements
  \/ ExportMarkers
  \/ ExportForeignObjects
  \/ ExportDownload

\* App with the given diagram rendered and no export made
ExporterMounted(previews) ==
  /\ preview \in previews
  /\ exportPc = "Idle"
  /\ exportTextData = <<>>
  /\ elementStyles = <<>>
  /\ exportMarkerColors = NoAttrs
  /\ svgClone = NoSvgDocument
  /\ downloads = <<>>

\* no file is being read
NoFile == [svg |-> FALSE, root |-> NoAttrs, css |-> <<>>, nodes |-> <<>>, file |-> FALSE]

\* App with no upload made
UploaderMounted ==
  /\ isConverting = FALSE
  /\ reading = NoFile
  /\ alerts = <<>>
  /\ converted = <<>>

---------------------------------------------------------------------------
(* convertSvgToInkscape as a state machine: one action per stage, in the   *)
(* order of the source.  svgContent is the argument, given as the tree the *)
(* DOMParser builds from it; doc is that tree while the call mutates it.   *)

MaxRuns == 2

\* the tree of the previous call used again instead of a fresh parse
ParseInputReusingTree ==
  /\ pc = "Idle"
  /\ svgContent.svg
  /\ doc' = IF run > 1 THEN doc ELSE svgContent
  /\ cssRules' = parseCSSRules(svgContent.css)
  /\ textData' = <<>>
  /\ markerColors' = NoAttrs
  /\ bbox' = NoBox
  /\ out' = NoOutput
  /\ pc' = "StylesParsed"
  /\ UNCHANGED <<appVars, svgContent, prevOut, run, thrown>>

\* lines 123-144: parse, find the root, parse the style tags; every local of
\* the call starts fresh
ParseInput ==
  /\ pc = "Idle"
  /\ svgContent.svg
  /\ doc' = svgContent
  /\ cssRules' = parseCSSRules(svgContent.css)
  /\ textData' = <<>>
  /\ markerColors' = NoAttrs
  /\ bbox' = NoBox
  /\ out' = NoOutput
  /\ pc' = "StylesParsed"
  /\ UNCHANGED <<appVars, svgContent, prevOut, run, thrown>>

\* the message of the Error thrown at line 130
NoSvgError == "No SVG element found"

\* nothing has been thrown
NoError == ""

\* the missing root ignored, the stages run on the empty document
ThrowNoSvgSkipped ==
  /\ pc = "Idle"
  /\ ~svgContent.svg
  /\ doc' = svgContent
  /\ cssRules' = parseCSSRules(svgContent.css)
  /\ pc' = "StylesParsed"
  /\ UNCHANGED <<appVars, svgContent, textData, markerColors, bbox, out, prevOut, run, thrown>>

\* lines 129-131
ThrowNoSvg ==
  /\ pc = "Idle"
  /\ ~svgContent.svg
  /\ pc' = "Error"
  /\ thrown' = NoSvgError
  /\ UNCHANGED <<appVars, svgContent, doc, cssRules, textData, markerColors, bbox, out, prevOut, run>>

\* lines 146-209
ReadTextData ==
  /\ pc = "StylesParsed"
  /\ textData' = extractTextData(doc, cssRules)
  /\ pc' = "TextRead"
  /\ UNCHANGED <<appVars, svgContent, doc, cssRules, markerColors, bbox, out, prevOut, run, thrown>>

\* lines 211-247
ReadMarkerColors ==
  /\ pc = "TextRead"
  /\ markerColors' = extractMarkerColors(doc, cssRules)
  /\ pc' = "ColorsRead"
  /\ UNCHANGED <<appVars, svgContent, doc, cssRules, textData, bbox, out, prevOut, run, thrown>>

\* lines 251-262
PrepareRoot ==
  /\ pc = "ColorsRead"
  /\ doc' = prepareRoot(doc)
  /\ pc' = "Prepared"
  /\ UNCHANGED <<appVars, svgContent, cssRules, textData, markerColors, bbox, out, prevOut, run, thrown>>

\* lines 264-349
FirstPass ==
  /\ pc = "Prepared"
  /\ doc' = firstPass(doc, cssRules)
  /\ pc' = "AttributesBaked"
  /\ UNCHANGED <<appVars, svgContent, cssRules, textData, markerColors, bbox, out, prevOut, run, thrown>>

\* lines 351-368
SecondPass ==
  /\ pc = "AttributesBaked"
  /\ doc' = secondPass(doc)
  /\ pc' = "Stripped"
  /\ UNCHANGED <<appVars, svgContent, cssRules, textData, markerColors, bbox, out, prevOut, run, thrown>>

\* lines 370-398
\* the marker step left out
ProcessMarkersSkipped ==
  /\ pc = "Stripped"
  /\ pc' = "MarkersRecolored"
  /\ UNCHANGED <<appVars, svgContent, doc, cssRules, textData, markerColors, bbox, out, prevOut, run, thrown>>

ProcessMarkers ==
  /\ pc = "Stripped"
  /\ doc' = processMarkers(doc, markerColors)
  /\ pc' = "MarkersRecolored"
  /\ UNCHANGED <<appVars, svgContent, cssRules, textData, markerColors, bbox, out, prevOut, run, thrown>>

\* lines 400-479
ReplaceForeignObjects ==
  /\ pc = "MarkersRecolored"
  /\ doc' = replaceForeignObjects(doc, textData)
  /\ pc' = "TextReconstructed"
  /\ UNCHANGED <<appVars, svgContent, cssRules, textData, markerColors, bbox, out, prevOut, run, thrown>>

\* lines 481-679
FitCanvas ==
  /\ pc = "TextReconstructed"
  /\ bbox' = calculateBoundingBox(doc.nodes)
  /\ doc' = fitCanvas(doc, calculateBoundingBox(doc.nodes))
  /\ pc' = "BoxFitted"
  /\ UNCHANGED <<appVars, svgContent, cssRules, textData, markerColors, out, prevOut, run, thrown>>

\* lines 681-720
Serialize ==
  /\ pc = "BoxFitted"
  /\ out' = serialize(doc)
  /\ pc' = "Serialized"
  /\ UNCHANGED <<appVars, svgContent, doc, cssRules, textData, markerColors, bbox, prevOut, run, thrown>>

\* the caller converts the same content once more (src/src/App.jsx line 498)
CallAgain ==
  /\ pc = "Serialized"
  /\ run < MaxRuns
  /\ prevOut' = out
  /\ run' = run + 1
  /\ pc' = "Idle"
  /\ UNCHANGED <<appVars, svgContent, doc, cssRules, textData, markerColors, bbox, out, thrown>>

Next ==
  \/ ParseInput
  \/ ThrowNoSvg
  \/ ReadTextData
  \/ ReadMarkerColors
  \/ PrepareRoot
  \/ FirstPass
  \/ SecondPass
  \/ ProcessMarkers
  \/ ReplaceForeignObjects
  \/ FitCanvas
  \/ Serialize
  \/ CallAgain

InitBoth(contents, previews) ==
  /\ svgContent \in contents
  /\ doc = NoSvgDocument
  /\ cssRules = <<>>
  /\ textData = <<>>
  /\ markerColors = NoAttrs
  /\ bbox = NoBox
  /\ out = NoOutput
  /\ prevOut = NoOutput
  /\ pc = "Idle"
  /\ run = 1
  /\ thrown = NoError
  /\ EditorMounted
  /\ RendererMounted
  /\ ExporterMounted(previews)
  /\ UploaderMounted

\* nothing rendered in the preview
InitWith(contents) == InitBoth(contents, {NoSvgDocument})

---------------------------------------------------------------------------
(* Input documents.  Attribute values are written with Attrs(names, f).    *)

Decl(prop, value) == [prop |-> prop, value |-> value]
Block(sels, decls) == [sels |-> sels, decls |-> decls]

\* whole units to tenths
U(n) == n * 10

RectAttrs(x, y, w, h) ==
  [a \in {"x", "y", "width", "height"} |->
     CASE a = "x" -> numToString(x) [] a = "y" -> numToString(y)
       [] a = "width" -> numToString(w) [] a = "height" -> numToString(h)]

WithClass(attrs, classes) ==
  IF classes = <<>> THEN attrs ELSE setAttribute(attrs, "class", classes)

---------------------------------------------------------------------------
(* Stylesheet documents: a rect below a group, and a stylesheet of up to   *)
(* MaxRules blocks.  The block at position p declares the p-th colour, so  *)
(* that the rule a resolved value comes from can be told.                  *)

MaxRules == 3

ColorNames == <<"red", "blue", "green", "orange", "purple", "teal">>

PositionColor(p) == Kw(ColorNames[((p - 1) % Len(ColorNames)) + 1])

ClusterRect == ClassSel("cluster") \o TagSel("rect")

\* the four kinds of block: .a{fill}, rect{fill}, .cluster rect{fill},
\* .a{fill;stroke}
CascadeBlock(p, kind) ==
  CASE kind = 1 -> Block(<<ClassSel("a")>>, <<Decl("fill", PositionColor(p))>>)
    [] kind = 2 -> Block(<<TagSel("rect")>>, <<Decl("fill", PositionColor(p))>>)
    [] kind = 3 -> Block(<<ClusterRect>>, <<Decl("fill", PositionColor(p))>>)
    [] kind = 4 -> Block(<<ClassSel("a")>>, <<Decl("fill", PositionColor(p)),
                                              Decl("stroke", PositionColor(p))>>)

CascadeSheets ==
  UNION {{[p \in 1..n |-> CascadeBlock(p, kinds[p])] : kinds \in [1..n -> 1..4]} :
           n \in 0..MaxRules}

CascadeDocument(css, groupClass, rectClass) ==
  Document(NoAttrs, css,
           <<Node("g", 0, WithClass(NoAttrs, groupClass), <<>>),
             Node("rect", 1, WithClass(RectAttrs(0, 0, U(10), U(10)), rectClass), <<>>)>>)

CascadeDocs ==
  {CascadeDocument(css, gc, rc) :
     css \in CascadeSheets, gc \in {<<>>, <<"cluster">>},
     rc \in {<<>>, <<"a">>, <<"cluster">>}}

InitCascade == InitWith(CascadeDocs \cup {NoSvgDocument})

SpecCascade == InitCascade /\ [][Next]_vars

---------------------------------------------------------------------------
(* Marker documents: a marker arrow1 holding one element, and up to        *)
(* MaxRefs paths that reference it.  The path at position p references it  *)
(* through the p-th marker attribute and takes its stroke from any of an   *)
(* inline style, a stroke attribute and the class rule .edge.              *)

MaxRefs == 2

MarkerContentTags == MarkerShapeTags \cup {"rect"}

PathData(n) == Coords(<<numToString(0), numToString(0), numToString(U(10) * n), numToString(U(5))>>)

InlineStroke(p) == Rgb(0, 128, p - 1)

EdgeRuleStroke == Rgb(0, 0, 255)

RefOptions == [inline : BOOLEAN, attr : BOOLEAN, class : BOOLEAN]

\* the path at position p
RefPath(p, o) ==
  LET a0 == [a \in {"d", MarkerAttrs[((p - 1) % 3) + 1]} |->
               IF a = "d" THEN PathData(p) ELSE Url("arrow1")]
      a1 == IF o.inline THEN setAttribute(a0, "style", <<Decl("stroke", InlineStroke(p))>>) ELSE a0
      a2 == IF o.attr THEN setAttribute(a1, "stroke", PositionColor(p)) ELSE a1
  IN Node("path", 0, WithClass(a2, IF o.class THEN <<"edge">> ELSE <<>>), <<>>)

MarkerSheet ==
  <<Block(<<ClassSel("edge")>>, <<Decl("stroke", EdgeRuleStroke), Decl("stroke-width", Px(0))>>),
    Block(<<ClassSel("marker")>>, <<Decl("fill", Kw("black"))>>)>>

MarkerRoot ==
  [a \in {"id", "class", "style"} |->
     CASE a = "id" -> Kw("my-svg")
       [] a = "class" -> <<"flowchart">>
       [] a = "style" -> <<Decl("background-color", Kw("white")), Decl("max-width", Px(500))>>]

MarkerElementAttrs ==
  [a \in {"id", "class", "style"} |->
     CASE a = "id" -> Kw("arrow1")
       [] a = "class" -> <<"marker">>
       [] a = "style" -> <<Decl("fill", Kw("black"))>>]

MarkerContentAttrs ==
  [a \in {"class", "style", "fill", "stroke-width", "points", "d"} |->
     CASE a = "class" -> <<"arrowMarkerPath">>
       [] a = "style" -> <<Decl("stroke-width", Px(1))>>
       [] a = "fill" -> Kw("black")
       [] a = "stroke-width" -> Px(1)
       [] a = "points" -> PathData(1)
       [] a = "d" -> PathData(1)]

\* a second marker, without an id of its own that any element references
InnerMarkerAttrs == [a \in {"id"} |-> Kw("arrow2")]

\* the defs of a document: one marker holding one element; or the marker
\* holding a marker with a path, then the element; or an empty marker, then
\* the marker holding the element
MarkerLayouts == {"single", "nested", "afterEmpty"}

MarkerDefs(layout, tag) ==
  CASE layout = "single" ->
         <<Node("defs", 0, NoAttrs, <<>>),
           Node("marker", 1, MarkerElementAttrs, <<>>),
           Node(tag, 2, MarkerContentAttrs, <<>>)>>
    [] layout = "nested" ->
         <<Node("defs", 0, NoAttrs, <<>>),
           Node("marker", 1, MarkerElementAttrs, <<>>),
           Node("marker", 2, InnerMarkerAttrs, <<>>),
           Node("path", 3, MarkerContentAttrs, <<>>),
           Node(tag, 2, MarkerContentAttrs, <<>>)>>
    [] layout = "afterEmpty" ->
         <<Node("defs", 0, NoAttrs, <<>>),
           Node("marker", 1, InnerMarkerAttrs, <<>>),
           Node("marker", 1, MarkerElementAttrs, <<>>),
           Node(tag, 3, MarkerContentAttrs, <<>>)>>

LayoutDocument(layout, tag, refs) ==
  Document(MarkerRoot, MarkerSheet,
           MarkerDefs(layout, tag) \o [p \in 1..Len(refs) |-> RefPath(p, refs[p])])

MarkerDocument(tag, refs) == LayoutDocument("single", tag, refs)

\* the elements tried in each layout
LayoutTags(layout) == IF layout = "single" THEN MarkerContentTags ELSE {"rect", "polygon"}

MarkerDocs ==
  UNION {{LayoutDocument(layout, tag, refs) :
            tag \in LayoutTags(layout),
            refs \in UNION {[1..n -> RefOptions] : n \in 0..MaxRefs}} :
         layout \in MarkerLayouts}

InitMarkers == InitWith(MarkerDocs \cup {NoSvgDocument})

SpecMarkers == InitMarkers /\ [][Next]_vars

---------------------------------------------------------------------------
(* Text documents: a rect at (0,0,100,50) and a foreignObject at (10,15)   *)
(* of height 20 holding a div with the text.                               *)

MaxTextLen == 5

HelloWorld == <<"H", "e", "l", "l", "o", " ", "W", "o", "r", "l", "d">>

Abcdefghij == <<"a", "b", "c", "d", "e", "f", "g", "h", "i", "j">>

Texts ==
  UNION {[1..n -> {"a", " "}] : n \in 0..MaxTextLen}
    \cup {HelloWorld, Abcdefghij, <<"a", "b", "BR", "c">>}

ContainerWidths == {U(16), U(40), U(80)}

\* the inline font-size of the div, if any
FontSizes == {<<>>, <<Decl("font-size", Px(10))>>}

TextDocument(text, width, fontStyle) ==
  Document(NoAttrs, <<>>,
           <<Node("rect", 0, RectAttrs(0, 0, U(100), U(50)), <<>>),
             Node("foreignObject", 0, RectAttrs(U(10), U(15), width, U(20)), <<>>),
             Node("div", 2,
                  WithClass(IF fontStyle = <<>> THEN NoAttrs
                            ELSE setAttribute(NoAttrs, "style", fontStyle), <<"nodeLabel">>),
                  text)>>)

TextDocs ==
  {TextDocument(text, width, font) :
     text \in Texts, width \in ContainerWidths, font \in FontSizes}

InitText == InitWith(TextDocs \cup {NoSvgDocument})

SpecText == InitText /\ [][Next]_vars

---------------------------------------------------------------------------
(* Geometry documents: a primitive below two groups with transforms, and   *)
(* a primitive beside a marker that holds another, larger one.             *)

MaxScale == 2

MaxSize == 2

PrimitiveTags == {"rect", "circle", "ellipse", "text", "path", "polygon", "polyline"}

\* a primitive of the given tag, its geometry growing with n
Primitive(tag, parent, n) ==
  CASE tag = "rect" -> Node(tag, parent, RectAttrs(15 * n, U(2) * n, U(10) * n + 5, 55 * n), <<>>)
    [] tag = "circle" ->
         Node(tag, parent,
              [a \in {"cx", "cy", "r"} |->
                 IF a = "r" THEN numToString(25 * n + 2) ELSE numToString(U(5) * n)], <<>>)
    [] tag = "ellipse" ->
         Node(tag, parent,
              [a \in {"cx", "cy", "rx", "ry"} |->
                 CASE a = "rx" -> numToString(U(3) * n) [] a = "ry" -> numToString(12 * n + 3)
                   [] OTHER -> numToString(U(5) * n)], <<>>)
    [] tag = "text" ->
         Node(tag, parent,
              [a \in {"x", "y", "font-size"} |->
                 CASE a = "font-size" -> Px(12) [] OTHER -> numToString(U(4) * n)],
              [j \in 1..(n + 2) |-> "a"])
    [] tag = "path" ->
         Node(tag, parent,
              [a \in {"d"} |-> Coords(<<numToString(5), numToString(-15 * n),
                                        numToString(105 * n), numToString(U(7))>>)], <<>>)
    [] OTHER ->
         Node(tag, parent,
              [a \in {"points"} |-> Coords(<<numToString(0), numToString(0),
                                             numToString(U(4) * n), numToString(0),
                                             numToString(U(2) * n), numToString(35 * n)>>)], <<>>)

\* the transform attribute of a group: none, or one of the supported forms
TransformOptions ==
  {<<>>, <<Translate(35, -U(2))>>, <<Matrix(-1, 1, 0, 0)>>}
    \cup {<<Matrix(sc, sc + 1, 15, 25)>> : sc \in 1..MaxScale}

Group(parent, transform) ==
  Node("g", parent, IF transform = <<>> THEN NoAttrs
                    ELSE setAttribute(NoAttrs, "transform", transform[1]), <<>>)

TransformDocument(t1, t2, tag, n) ==
  Document(NoAttrs, <<>>, <<Group(0, t1), Group(1, t2), Primitive(tag, 2, n)>>)

\* what the marker holds: nothing, or a large primitive at depth 1 or 2,
\* with a class of its own
MarkerContents == {<<>>} \cup {<<tag, depth>> : tag \in PrimitiveTags, depth \in 1..2}

BigSize == 9

MarkerContentNodes(content) ==
  IF content = <<>> THEN <<>>
  ELSE LET big == Primitive(content[1], content[2] + 1, BigSize)
           classed == [big EXCEPT !.attrs = setAttribute(big.attrs, "class", <<"big">>)]
       IN IF content[2] = 1 THEN <<classed>>
          ELSE <<Node("g", 2, setAttribute(NoAttrs, "style", <<Decl("opacity", Num(5, ""))>>), <<>>),
                 classed>>

MarkerContentDocument(content, tag, n) ==
  Document(NoAttrs, <<>>,
           <<Node("defs", 0, NoAttrs, <<>>),
             Node("marker", 1, setAttribute(NoAttrs, "id", Kw("big")), <<>>)>>
             \o MarkerContentNodes(content)
             \o <<Primitive(tag, 0, n)>>)

BoxDocs ==
  {TransformDocument(t1, t2, tag, n) :
     t1 \in TransformOptions, t2 \in TransformOptions, tag \in PrimitiveTags, n \in 1..MaxSize}
    \cup {MarkerContentDocument(content, tag, n) :
            content \in MarkerContents, tag \in PrimitiveTags, n \in 1..MaxSize}

InitBox == InitWith(BoxDocs \cup {NoSvgDocument})

SpecBox == InitBox /\ [][Next]_vars

---------------------------------------------------------------------------
(* Every input document                                                    *)

---------------------------------------------------------------------------
(* Geometry documents: a root with a canvas of its own, holding nothing,   *)
(* or only a marker or a group, or a primitive whose geometry is sound,    *)
(* unparseable or missing, alone or before a sound primitive.              *)

\* the root as the input gives it: viewBox, width and height, or none
GeometryRoots ==
  {NoAttrs,
   [a \in {"viewBox", "width", "height"} |->
      CASE a = "viewBox" -> ViewBox(0, 0, U(300), U(200))
        [] a = "width" -> Num(U(300), "px")
        [] a = "height" -> Num(U(200), "px")]}

\* the first position field and the size field of the tags with fields
PositionField(tag) == IF tag \in {"rect", "text"} THEN "x" ELSE "cx"

SizeField(tag) ==
  CASE tag = "rect" -> "width" [] tag = "circle" -> "r" [] tag = "ellipse" -> "rx"
    [] OTHER -> "y"

CoordField(tag) == IF tag = "path" THEN "d" ELSE "points"

\* a token /[\d.-]+/g matches and parseFloat does not parse
NaNToken == Kw("-")

Damages == {"sound", "unparseable", "missing", "bare"}

\* the primitive with one value unparseable, with one value missing, or
\* with no geometry at all
Damaged(tag, n, how) ==
  LET el == Primitive(tag, 0, n)
      a == el.attrs
  IN CASE how = "sound" -> el
       [] how = "bare" ->
            [el EXCEPT !.attrs = [f \in DOMAIN a \cap {"font-size"} |-> a[f]]]
       [] how = "unparseable" /\ tag \in {"rect", "circle", "ellipse", "text"} ->
            [el EXCEPT !.attrs = setAttribute(a, PositionField(tag), Kw("abc"))]
       [] how = "missing" /\ tag \in {"rect", "circle", "ellipse", "text"} ->
            [el EXCEPT !.attrs = removeAttribute(a, SizeField(tag))]
       [] how = "unparseable" ->
            [el EXCEPT !.attrs = setAttribute(a, CoordField(tag),
               Coords([a[CoordField(tag)].toks EXCEPT ![2] = NaNToken]))]
       [] OTHER ->
            [el EXCEPT !.attrs = setAttribute(a, CoordField(tag),
               Coords(SubSeq(a[CoordField(tag)].toks, 1,
                             Len(a[CoordField(tag)].toks) - 1)))]

\* contents without any primitive outside a marker
EmptyContents ==
  {<<>>,
   <<Node("g", 0, NoAttrs, <<>>)>>,
   <<Node("defs", 0, NoAttrs, <<>>),
     Node("marker", 1, setAttribute(NoAttrs, "id", Kw("big")), <<>>),
     Primitive("rect", 2, BigSize)>>}

GeometryContents ==
  EmptyContents
    \cup {<<Damaged(tag, n, how)>> : tag \in PrimitiveTags, n \in 1..MaxSize, how \in Damages}
    \cup {<<Damaged(tag, n, how), Primitive(other, 0, 1)>> :
            tag \in PrimitiveTags, n \in 1..MaxSize, how \in Damages,
            other \in {"rect", "polyline"}}

GeometryDocs == {Document(root, <<>>, nodes) : root \in GeometryRoots, nodes \in GeometryContents}

InitGeometry == InitWith(GeometryDocs \cup {NoSvgDocument})

SpecGeometry == InitGeometry /\ [][Next]_vars

---------------------------------------------------------------------------
(* Colour documents: one rect whose inline style declares the fill         *)

ChannelStep == 51

\* channel values: the multiples of the step, the ends of the range and the
\* values around one and two hexadecimal digits
Channels == {c \in 0..255 : c % ChannelStep = 0 \/ c \in {9, 10, 15, 16, 255}}

Alphas == {0, 5}

\* strings that are not of the form rgb(r,g,b) or rgba(r,g,b,a)
OtherColors ==
  {None, Kw("red"), Kw("currentColor"), Kw("rgb(10 20 30)"), Kw("hsl(0,0%,20%)"),
   DefaultColor, Hex(<<"A", "B", "C">>), Hex(<<"0", "0", "8", "0", "0", "0">>)}

Colors ==
  {Rgb(r, g, b) : r \in Channels, g \in Channels, b \in Channels}
    \cup {Rgba(r, g, b, a) : r \in Channels, g \in {0, 128}, b \in Channels, a \in Alphas}
    \cup OtherColors

ColorDocument(color) ==
  Document(NoAttrs, <<>>,
           <<Node("rect", 0,
                  setAttribute(RectAttrs(0, 0, U(10), U(5)), "style", <<Decl("fill", color)>>),
                  <<>>)>>)

ColorDocs == {ColorDocument(c) : c \in Colors}

InitColor == InitWith(ColorDocs \cup {NoSvgDocument})

SpecColor == InitColor /\ [][Next]_vars

---------------------------------------------------------------------------
(* Reference documents: the marker arrow1 holding one element, and one     *)
(* path that references it through one of the three marker properties,     *)
(* given as an attribute or as a declaration of the inline style.          *)

RefForms == {"attribute", "style"}

GreenStroke == Rgb(0, 128, 0)

\* strokeInline: the stroke is declared in the style; otherwise the path
\* has class edge
FormPath(form, m, strokeInline) ==
  LET a0 == [a \in {"d"} |-> PathData(1)]
      a1 == IF form = "attribute" THEN setAttribute(a0, m, Url("arrow1")) ELSE a0
      decls == (IF form = "style" THEN <<Decl(m, Url("arrow1"))>> ELSE <<>>)
                 \o (IF strokeInline THEN <<Decl("stroke", GreenStroke)>> ELSE <<>>)
      a2 == IF decls # <<>> THEN setAttribute(a1, "style", decls) ELSE a1
  IN Node("path", 0, WithClass(a2, IF strokeInline THEN <<>> ELSE <<"edge">>), <<>>)

FormDocument(form, m, strokeInline, tag) ==
  Document(MarkerRoot, MarkerSheet,
           MarkerDefs("single", tag) \o <<FormPath(form, m, strokeInline)>>)

FormDocs ==
  {FormDocument(form, MarkerAttrs[j], strokeInline, tag) :
     form \in RefForms, j \in 1..3, strokeInline \in BOOLEAN, tag \in MarkerContentTags}

InitForms == InitWith(FormDocs \cup {NoSvgDocument})

SpecForms == InitForms /\ [][Next]_vars

---------------------------------------------------------------------------
(* Stage documents: the marker arrow1 holding one shape, a path that       *)
(* references it, and a foreignObject holding a div with a text.           *)

StageTexts == {HelloWorld, <<"a">>}

StageDocument(tag, o, text) ==
  Document(MarkerRoot, MarkerSheet,
           MarkerDefs("single", tag)
             \o <<RefPath(1, o),
                  Node("foreignObject", 0, RectAttrs(U(10), U(15), U(80), U(20)), <<>>),
                  Node("div", 5, WithClass(NoAttrs, <<"nodeLabel">>), text)>>)

StageDocs ==
  {StageDocument(tag, o, text) : tag \in MarkerShapeTags, o \in RefOptions, text \in StageTexts}

InitStages == InitWith(StageDocs \cup {NoSvgDocument})

SpecStages == InitStages /\ [][Next]_vars

---------------------------------------------------------------------------
(* Read documents: the marker arrow1 with a path, one path that references *)
(* it, and a rect of class a below a group; the stylesheet gives the       *)
(* stroke of class edge and the fill of a rect below class cluster.        *)

ReadSheet == MarkerSheet \o <<Block(<<ClusterRect>>, <<Decl("fill", Kw("green"))>>)>>

ReadDocument(o, groupClass) ==
  Document(MarkerRoot, ReadSheet,
           MarkerDefs("single", "path")
             \o <<RefPath(1, o),
                  Node("g", 0, WithClass(NoAttrs, groupClass), <<>>),
                  Node("rect", 5, WithClass(RectAttrs(0, 0, U(10), U(5)), <<"a">>), <<>>)>>)

ReadDocs == {ReadDocument(o, gc) : o \in RefOptions, gc \in {<<>>, <<"cluster">>}}

\* the diagrams rendered in the preview
ReadPreviews ==
  {ReadDocument(o, <<"cluster">>) : o \in {r \in RefOptions : r.class /\ ~r.attr}}

InitReads == InitBoth(ReadDocs \cup {NoSvgDocument}, ReadPreviews)

\* the two export paths side by side
SpecReads == InitReads /\ [][Next \/ NextExport]_vars

---------------------------------------------------------------------------
(* Export of the preview alone: the read documents and the stage documents *)
(* as rendered diagrams, no upload taking place.                           *)

ExportPreviews == ReadDocs \cup StageDocs

InitExport == InitBoth({NoSvgDocument}, ExportPreviews)

SpecExport == InitExport /\ [][NextExport]_vars

---------------------------------------------------------------------------
(* Label documents: a rect and a foreignObject holding Hello World in a     *)
(* div or in a b; the root has id my-svg, the stylesheet may hold a rule    *)
(* for class nodeLabel and a rule for #my-svg, and the inner element may    *)
(* carry an inline font-size.                                               *)

LabelRule ==
  Block(<<ClassSel("nodeLabel")>>, <<Decl("color", Rgb(255, 0, 0)), Decl("font-size", Px(12))>>)

RootScopeRule ==
  Block(<<IdSel("my-svg")>>,
        <<Decl("fill", Kw("navy")), Decl("font-size", Px(14)),
          Decl("font-family", Kw("trebuchet ms")), Decl("font-weight", Kw("bold"))>>)

LabelFontSizes == {<<>>, <<Decl("font-size", Px(10))>>, <<Decl("font-size", Kw("medium"))>>}

LabelDocument(inner, font, labelRule, rootRule, width) ==
  Document(MarkerRoot,
           (IF labelRule THEN <<LabelRule>> ELSE <<>>)
             \o (IF rootRule THEN <<RootScopeRule>> ELSE <<>>),
           <<Node("rect", 0, RectAttrs(0, 0, U(100), U(50)), <<>>),
             Node("foreignObject", 0, RectAttrs(U(10), U(15), width, U(20)), <<>>),
             Node(inner, 2,
                  WithClass(IF font = <<>> THEN NoAttrs
                            ELSE setAttribute(NoAttrs, "style", font), <<"nodeLabel">>),
                  HelloWorld)>>)

LabelDocs ==
  {LabelDocument(inner, font, labelRule, rootRule, width) :
     inner \in {"div", "b"}, font \in LabelFontSizes, labelRule \in BOOLEAN,
     rootRule \in BOOLEAN, width \in {U(16), U(80)}}

InitLabels == InitWith(LabelDocs \cup {NoSvgDocument})

SpecLabels == InitLabels /\ [][Next]_vars

---------------------------------------------------------------------------
(* Block documents: a foreignObject at (10,15) of height 20 holding a div   *)
(* with one to three words, alone or beside a rect at (0,0,100,50).         *)

AAA == <<"a", " ", "a", " ", "a">>

BlockTexts == {HelloWorld, AAA, <<"a", " ", "a">>, <<"a">>}

BlockDocument(text, width, withRect) ==
  Document(NoAttrs, <<>>,
           (IF withRect THEN <<Node("rect", 0, RectAttrs(0, 0, U(100), U(50)), <<>>)>> ELSE <<>>)
             \o <<Node("foreignObject", 0, RectAttrs(U(10), U(15), width, U(20)), <<>>),
                  Node("div", IF withRect THEN 2 ELSE 1,
                       WithClass(NoAttrs, <<"nodeLabel">>), text)>>)

BlockDocs ==
  {BlockDocument(text, width, withRect) :
     text \in BlockTexts, width \in {U(16), U(80)}, withRect \in BOOLEAN}

InitBlocks == InitWith(BlockDocs \cup {NoSvgDocument})

SpecBlocks == InitBlocks /\ [][Next]_vars

---------------------------------------------------------------------------
(* Baking documents: one rect of class a and one baked property, which any *)
(* of the rect's attribute, its inline style and the rule .a may give,     *)
(* each with a value of its own.                                           *)

BakedProps == {"fill", "stroke", "stroke-width", "opacity"}

\* tenths: opacity 0.3, 0.5 and 0.8
AttributeValue(prop) ==
  CASE prop \in {"fill", "stroke"} -> Kw("red")
    [] prop = "stroke-width" -> Px(1)
    [] prop = "opacity" -> Num(3, "")

InlineValues(prop) ==
  CASE prop \in {"fill", "stroke"} -> {Rgb(0, 0, 255)}
    [] prop = "stroke-width" -> {Px(2), Px(0)}
    [] prop = "opacity" -> {Num(5, "")}

SheetValue(prop) ==
  CASE prop \in {"fill", "stroke"} -> Kw("green")
    [] prop = "stroke-width" -> Px(3)
    [] prop = "opacity" -> Num(8, "")

\* inlineValue Undef: no style attribute
BakingDocument(prop, asAttribute, inlineValue, inSheet) ==
  LET a0 == WithClass(RectAttrs(0, 0, U(10), U(5)), <<"a">>)
      a1 == IF asAttribute THEN setAttribute(a0, prop, AttributeValue(prop)) ELSE a0
      a2 == IF inlineValue # Undef THEN setAttribute(a1, "style", <<Decl(prop, inlineValue)>>)
            ELSE a1
  IN Document(NoAttrs,
              IF inSheet THEN <<Block(<<ClassSel("a")>>, <<Decl(prop, SheetValue(prop))>>)>>
              ELSE <<>>,
              <<Node("rect", 0, a2, <<>>)>>)

BakingDocs ==
  UNION {{BakingDocument(prop, asAttribute, inlineValue, inSheet) :
            asAttribute \in BOOLEAN, inlineValue \in InlineValues(prop) \cup {Undef},
            inSheet \in BOOLEAN} : prop \in BakedProps}

InitBaking == InitWith(BakingDocs \cup {NoSvgDocument})

SpecBaking == InitBaking /\ [][Next]_vars

\* contents without svg element: the empty one, and a tree of other elements
\* with a stylesheet
NoSvgDocs ==
  {NoSvgDocument,
   [svg |-> FALSE, root |-> NoAttrs, css |-> MarkerSheet,
    nodes |-> <<Node("rect", 0, RectAttrs(0, 0, U(10), U(5)), <<>>)>>]}

Init == InitWith(CascadeDocs \cup MarkerDocs \cup TextDocs \cup BoxDocs \cup NoSvgDocs)

Spec == Init /\ [][Next]_vars

\* the page as loaded, before any file is handed to the converter
---------------------------------------------------------------------------
(* handleSVGFileUpload (src/src/App.jsx lines 486-526).  The handler starts *)
(* a FileReader; the reader later fires load or error, and the load        *)
(* handler runs the conversion to its end before any other event.          *)

\* the uploads one session may make
MaxUploads == 2

\* the files the user may choose: one without an svg element, two diagrams
UploadFiles ==
  {NoSvgDocument,
   TextDocument(HelloWorld, U(80), <<>>),
   StageDocument("path", [inline |-> TRUE, attr |-> FALSE, class |-> TRUE], HelloWorld)}

AsFile(content) ==
  [svg |-> content.svg, root |-> content.root, css |-> content.css, nodes |-> content.nodes,
   file |-> TRUE]

ContentOf(f) == [svg |-> f.svg, root |-> f.root, css |-> f.css, nodes |-> f.nodes]

\* what the call at line 498 gives for each of the files
Converted == [content \in UploadFiles |-> convertSvgToInkscape(content)]

\* lines 486-493 and 521: the input is disabled while isConverting (line 637)
HandleSVGFileUpload ==
  /\ ~isConverting
  /\ Len(alerts) + Len(converted) < MaxUploads
  /\ \E content \in UploadFiles : reading' = AsFile(content)
  /\ isConverting' = TRUE
  /\ UNCHANGED <<converterVars, editorVars, rendererVars, exporterVars, alerts, converted>>

\* reader.onload whose catch block is missing: the Error leaves the handler
ReaderLoadWithoutCatch ==
  /\ reading.file
  /\ LET result == Converted[ContentOf(reading)]
     IN IF result.thrown = ""
        THEN /\ converted' = Append(converted, result.out)
             /\ isConverting' = FALSE
             /\ alerts' = alerts
        ELSE /\ alerts' = Append(alerts, result.thrown)
             /\ UNCHANGED <<converted, isConverting>>
  /\ reading' = NoFile
  /\ UNCHANGED <<converterVars, editorVars, rendererVars, exporterVars>>

\* reader.onload (lines 493-515)
ReaderLoad ==
  /\ reading.file
  /\ LET result == Converted[ContentOf(reading)]
     IN IF result.thrown = ""
        THEN /\ converted' = Append(converted, result.out)
             /\ alerts' = alerts
        ELSE /\ alerts' = Append(alerts, "Failed to convert SVG: " \o result.thrown)
             /\ converted' = converted
  /\ isConverting' = FALSE
  /\ reading' = NoFile
  /\ UNCHANGED <<converterVars, editorVars, rendererVars, exporterVars>>

\* reader.onerror (lines 517-520)
ReaderError ==
  /\ reading.file
  /\ alerts' = Append(alerts, "Failed to read the file")
  /\ isConverting' = FALSE
  /\ reading' = NoFile
  /\ UNCHANGED <<converterVars, editorVars, rendererVars, exporterVars, converted>>

NextUpload ==
  \/ HandleSVGFileUpload
  \/ ReaderLoad
  \/ ReaderError

InitPage == InitWith({NoSvgDocument})

SpecEditor == InitPage /\ [][NextEditor]_vars

SpecHistory == InitPage /\ [][NextHistory]_vars

\* one visit of the page
SpecTabs == InitPage /\ [][NextTabs]_vars

\* several visits: the page may be reloaded between the operations
SpecVisits == InitPage /\ [][NextVisits]_vars

\* uploads while the user types; a read that was started ends with load or
\* with error
SpecUpload ==
  /\ InitPage
  /\ [][NextUpload \/ TypeCode]_vars
  /\ WF_vars(ReaderLoad \/ ReaderError)

\* a promise in flight settles
SpecRenderer == InitPage /\ [][NextRenderer]_vars /\ WF_vars(SettleRender)

---------------------------------------------------------------------------
(* Properties of the cascade                                               *)

Running == pc \notin {"Idle", "Error"}

\* what the cascade resolves for element i of the input
ResolvedStyles(i) ==
  getApplicableStyles(svgContent, i, cssRules, svgIdOf(svgContent))

\* the positions, in source order, of the blocks that match element i and
\* declare the property
DeclaringBlocks(i, prop) ==
  {b \in 1..Len(svgContent.css) :
     /\ \E s \in 1..Len(svgContent.css[b].sels) :
          selectorMatches(svgContent, i, svgContent.css[b].sels[s], svgIdOf(svgContent))
     /\ \E k \in 1..Len(svgContent.css[b].decls) : svgContent.css[b].decls[k].prop = prop}

\* the value the block at position b declares for the property
DeclaredValue(b, prop) ==
  LET decls == svgContent.css[b].decls
  IN decls[Max({k \in 1..Len(decls) : decls[k].prop = prop})].value

\* C2: cascade later-wins.  Whenever the cascade yields a value for a
\* property of a node, that value is the one declared by the last block, in
\* stylesheet source order, that matches the node and declares the property.
C2_LastMatchingRuleWins ==
  Running =>
    \A i \in 1..Len(svgContent.nodes) : \A prop \in DOMAIN ResolvedStyles(i) :
       /\ DeclaringBlocks(i, prop) # {}
       /\ ResolvedStyles(i)[prop] = DeclaredValue(Max(DeclaringBlocks(i, prop)), prop)

\* C16: cascade merge keeps earlier declarations.  A property declared by
\* some block that matches a node, and by no later matching block, is
\* present in the node's resolved declarations with that block's value,
\* also when a later matching block repeats the selector text.
C16_MergeKeepsEarlier ==
  Running =>
    \A i \in 1..Len(svgContent.nodes) : \A prop \in {"fill", "stroke"} :
       \A b \in DeclaringBlocks(i, prop) :
          b = Max(DeclaringBlocks(i, prop)) =>
            /\ prop \in DOMAIN ResolvedStyles(i)
            /\ ResolvedStyles(i)[prop] = DeclaredValue(b, prop)

\* the positions of the blocks with selector .cluster rect
ClusterBlocks ==
  {b \in 1..Len(svgContent.css) : svgContent.css[b].sels = <<ClusterRect>>}

\* element i has a strict ancestor, the root included, of class cluster
UnderCluster(i) ==
  \/ "cluster" \in classList(svgContent.root)
  \/ \E j \in 1..Len(svgContent.nodes) :
       /\ j \in Ancestors(svgContent.nodes, i)
       /\ hasAttribute(svgContent.nodes[j].attrs, "class")
       /\ \E c \in 1..Len(svgContent.nodes[j].attrs["class"]) :
            svgContent.nodes[j].attrs["class"][c] = "cluster"

\* no block with another selector matches element i
OnlyClusterMatches(i) ==
  \A b \in 1..Len(svgContent.css) : \A s \in 1..Len(svgContent.css[b].sels) :
     svgContent.css[b].sels[s] # ClusterRect =>
       ~selectorMatches(svgContent, i, svgContent.css[b].sels[s], svgIdOf(svgContent))

\* C3: descendant selector matching.  With a rule .cluster rect in the
\* stylesheet, a rect below an element of class cluster resolves the
\* property the rule declares (with the rule's value when no other rule
\* matches the rect), and a rect without such an ancestor resolves none of
\* the rule's declarations, also when the rect itself has class cluster.
C3_DescendantSelector ==
  (Running /\ ClusterBlocks # {}) =>
    \A i \in 1..Len(svgContent.nodes) :
       svgContent.nodes[i].tag = "rect" =>
         IF UnderCluster(i)
         THEN /\ "fill" \in DOMAIN ResolvedStyles(i)
              /\ OnlyClusterMatches(i) =>
                   ResolvedStyles(i)["fill"] = DeclaredValue(Max(ClusterBlocks), "fill")
         ELSE \A b \in ClusterBlocks :
                Get(ResolvedStyles(i), "fill") # DeclaredValue(b, "fill")

\* a rect below a cluster group takes the rule's fill, and the first pass
\* has baked it
C3_Witness ==
  /\ pc = "AttributesBaked"
  /\ ClusterBlocks # {}
  /\ UnderCluster(2) /\ OnlyClusterMatches(2)
  /\ "cluster" \in classList(svgContent.nodes[2].attrs)
  /\ getAttribute(doc.nodes[2].attrs, "fill") = DeclaredValue(Max(ClusterBlocks), "fill")

---------------------------------------------------------------------------
(* Properties of the bounding box and of the canvas fit                    *)

\* the tree with one more outermost group, of transform translate(x, y)
wrapInTranslate(nodes, x, y) ==
  <<Group(0, <<Translate(x, y)>>)>>
    \o [i \in 1..Len(nodes) |-> [nodes[i] EXCEPT !.parent = nodes[i].parent + 1]]

shiftBox(box, x, y) ==
  [has |-> TRUE, minX |-> box.minX + x, minY |-> box.minY + y,
   maxX |-> box.maxX + x, maxY |-> box.maxY + y]

\* C1: bounding-box translation invariance.  Wrapping the whole tree in one
\* more outermost ancestor with transform translate(10,20) moves the computed
\* box by exactly (10,20), whatever supported transforms the ancestors carry.
C1_TranslationInvariance ==
  (pc = "BoxFitted" /\ bbox.has) =>
    calculateBoundingBox(wrapInTranslate(doc.nodes, U(10), U(20))) = shiftBox(bbox, U(10), U(20))

\* the elements kept when everything below a marker is taken out, in order
RECURSIVE outsideMarkersUpTo(_, _)
outsideMarkersUpTo(nodes, n) ==
  IF n = 0 THEN <<>>
  ELSE outsideMarkersUpTo(nodes, n - 1)
         \o (IF \E j \in Ancestors(nodes, n) : nodes[j].tag = "marker" THEN <<>> ELSE <<n>>)

\* the tree without the content of its markers
withoutMarkerContent(nodes) ==
  LET kept == outsideMarkersUpTo(nodes, Len(nodes))
  IN [k \in 1..Len(kept) |->
        [nodes[kept[k]] EXCEPT !.parent =
           IF nodes[kept[k]].parent = 0 THEN 0 ELSE indexIn(kept, nodes[kept[k]].parent)]]

\* C5: marker content is excluded from the bounding box.  The box, and the
\* viewBox, width and height fitted to it, are those of the same tree with
\* the markers emptied, so that adding, removing or enlarging a primitive
\* at any depth inside a marker changes none of them.
C5_MarkerContentIgnored ==
  pc = "BoxFitted" =>
    LET emptied == withoutMarkerContent(doc.nodes)
    IN /\ bbox = calculateBoundingBox(emptied)
       /\ doc.root = fitCanvas([doc EXCEPT !.nodes = emptied], calculateBoundingBox(emptied)).root

\* a marker holds a primitive two levels down and the box has been fitted
C5_Witness ==
  /\ pc = "BoxFitted"
  /\ bbox.has
  /\ \E i \in 1..Len(doc.nodes) :
       /\ doc.nodes[i].tag \in PrimitiveTags
       /\ doc.nodes[i].parent # 0
       /\ doc.nodes[doc.nodes[i].parent].tag = "g"
       /\ \E j \in Ancestors(doc.nodes, i) : doc.nodes[j].tag = "marker"

\* the least whole number of units not below t tenths
CeilingOf(t) == IF t % 10 = 0 THEN t \div 10 ELSE t \div 10 + 1

\* C6: canvas fit.  Whenever the box is non-null, the fitted viewBox is
\* (minX - 10, minY - 10, W, H) with W = ceil(maxX - minX) + 20 and
\* H = ceil(maxY - minY) + 20, and the root's width and height are W and H.
C6_CanvasFit ==
  (pc = "BoxFitted" /\ bbox.has) =>
    LET W == CeilingOf(bbox.maxX - bbox.minX) + 20
        H == CeilingOf(bbox.maxY - bbox.minY) + 20
    IN /\ getAttribute(doc.root, "viewBox") = ViewBox(bbox.minX - U(10), bbox.minY - U(10), W, H)
       /\ getAttribute(doc.root, "width") = numToString(U(W))
       /\ getAttribute(doc.root, "height") = numToString(U(H))

\* a box whose width is not a whole number of units has been fitted
C6_Witness ==
  /\ pc = "BoxFitted"
  /\ bbox.has
  /\ (bbox.maxX - bbox.minX) % 10 # 0
  /\ hasAttribute(doc.root, "viewBox")

---------------------------------------------------------------------------
(* Properties of the marker colours                                        *)

\* the elements of the input that reference marker id through marker-end,
\* marker-start or marker-mid
ReferencingElements(id) ==
  {i \in 1..Len(svgContent.nodes) :
     \E a \in {"marker-end", "marker-start", "marker-mid"} :
        /\ a \in DOMAIN svgContent.nodes[i].attrs
        /\ svgContent.nodes[i].attrs[a] = Url(id)}

\* the inline stroke, else the stroke attribute, else the cascade's stroke,
\* else #333333, normalized
EffectiveStroke(i) ==
  LET a == svgContent.nodes[i].attrs
      inlineStrokes == IF "style" \in DOMAIN a
                       THEN {k \in 1..Len(a["style"]) : a["style"][k].prop = "stroke"}
                       ELSE {}
  IN rgbToHex(IF inlineStrokes # {} THEN a["style"][Max(inlineStrokes)].value
              ELSE IF "stroke" \in DOMAIN a THEN a["stroke"]
              ELSE IF "stroke" \in DOMAIN ResolvedStyles(i) THEN ResolvedStyles(i)["stroke"]
              ELSE DefaultColor)

\* the colour recorded for marker id: that of its last referencing element
RecordedColor(id) ==
  IF ReferencingElements(id) = {} THEN DefaultColor
  ELSE EffectiveStroke(Max(ReferencingElements(id)))

\* the SVG shape elements
ShapeTags == {"path", "rect", "circle", "ellipse", "line", "polyline", "polygon"}

\* the elements with one of the tags inside marker m
ContainedShapes(nodes, m, tags) ==
  {j \in 1..Len(nodes) : m \in Ancestors(nodes, j) /\ nodes[j].tag \in tags}

\* in the output every element with one of the tags inside a marker has
\* stroke none and the marker's recorded colour as fill
MarkersRecolored(tags) ==
  \A m \in 1..Len(out.nodes) :
     (out.nodes[m].tag = "marker" /\ hasAttribute(out.nodes[m].attrs, "id")) =>
       \A j \in ContainedShapes(out.nodes, m, tags) :
          /\ getAttribute(out.nodes[j].attrs, "stroke") = None
          /\ getAttribute(out.nodes[j].attrs, "fill")
               = RecordedColor(out.nodes[m].attrs["id"].name)

\* one path with marker-end="url(#arrow1)" and inline stroke rgb(0,128,0)
ArrowDocument ==
  MarkerDocument("path", <<[inline |-> TRUE, attr |-> FALSE, class |-> FALSE]>>)

\* C4: marker recoloring.  In the output every shape inside a marker has
\* stroke none and, as fill, the normalized effective stroke of the last
\* element in document order that references the marker, #333333 when no
\* element does; for ArrowDocument that is #008000.
C4_MarkerRecoloring ==
  pc = "Serialized" =>
    /\ MarkersRecolored(ShapeTags)
    /\ svgContent = ArrowDocument =>
         getAttribute(out.nodes[3].attrs, "fill") = Hex(<<"0", "0", "8", "0", "0", "0">>)

---------------------------------------------------------------------------
(* Properties of the reconstructed text                                    *)

HelloWorldDocument == TextDocument(HelloWorld, U(80), <<>>)

AbcdefghijDocument == TextDocument(Abcdefghij, U(40), <<>>)

\* the lines of the text element i of the tree: its tspans' texts, or its
\* own text when it has no tspan
LinesOf(nodes, i) ==
  LET tspans == {j \in 1..Len(nodes) : nodes[j].tag = "tspan" /\ nodes[j].parent = i}
  IN IF tspans = {} THEN <<nodes[i].text>>
     ELSE [l \in 1..Cardinality(tspans) |->
             nodes[CHOOSE j \in tspans : Cardinality({q \in tspans : q < j}) = l - 1].text]

TextElements(nodes) == {i \in 1..Len(nodes) : nodes[i].tag = "text"}

NoForeignObject(nodes) == \A i \in 1..Len(nodes) : nodes[i].tag # "foreignObject"

\* C8 as stated: the text element of HelloWorldDocument holds "Hello World"
\* on a single line, no foreignObject is left and the viewBox is
\* "-10 -10 120 70".
C8_HelloWorldSingleLine ==
  (pc = "Serialized" /\ svgContent = HelloWorldDocument) =>
    /\ \E i \in TextElements(out.nodes) : LinesOf(out.nodes, i) = <<HelloWorld>>
    /\ NoForeignObject(out.nodes)
    /\ getAttribute(out.root, "viewBox") = ViewBox(-U(10), -U(10), 120, 70)

\* C8: the end-to-end text scenario.  For HelloWorldDocument the output
\* holds one text element with the two lines "Hello" and "World" (the
\* estimate 11 x 8 = 88 exceeds the width 80), no foreignObject, and the
\* viewBox "-10 -10 120 70".
C8_HelloWorldWrapped ==
  (pc = "Serialized" /\ svgContent = HelloWorldDocument) =>
    /\ \E i \in TextElements(out.nodes) :
         /\ LinesOf(out.nodes, i) = <<SubSeq(HelloWorld, 1, 5), SubSeq(HelloWorld, 7, 11)>>
         /\ TextElements(out.nodes) = {i}
    /\ NoForeignObject(out.nodes)
    /\ getAttribute(out.root, "viewBox") = ViewBox(-U(10), -U(10), 120, 70)

C8_Witness ==
  /\ pc = "Serialized"
  /\ svgContent = HelloWorldDocument
  /\ \E i \in 1..Len(out.nodes) : out.nodes[i].tag = "tspan"

\* the estimated width of a line, characters x 0.5 x font-size, is at most
\* the container width (both sides in tenths, times 10)
FitsWidth(line, data) ==
  Len(line) * 5 * (IF data.styles.fontSize.k = "num" /\ data.styles.fontSize.v # 0
                   THEN data.styles.fontSize.v ELSE 160)
    <= data.width * 10

SingleWord(line) == \A c \in 1..Len(line) : line[c] # " "

\* the data of the k-th text element: that of the k-th foreignObject with text
RECURSIVE withText(_)
withText(td) ==
  IF td = <<>> THEN <<>>
  ELSE (IF Head(td).textContent # <<>> THEN <<Head(td)>> ELSE <<>>) \o withText(Tail(td))

\* every line of every reconstructed text fits its container, unless it is
\* a single word
LinesFit ==
  pc = "TextReconstructed" =>
    \A i \in TextElements(doc.nodes) :
       LET data == withText(textData)[Cardinality({q \in TextElements(doc.nodes) : q <= i})]
       IN \A l \in 1..Len(LinesOf(doc.nodes, i)) :
             FitsWidth(LinesOf(doc.nodes, i)[l], data) \/ SingleWord(LinesOf(doc.nodes, i)[l])

\* C9 as stated: "abcdefghij" in a container of width 40 at font-size 16 is
\* wrapped into more than one line, and every line fits unless it is a
\* single word.
C9_LongWordWrapped ==
  /\ LinesFit
  /\ (pc = "TextReconstructed" /\ svgContent = AbcdefghijDocument) =>
       \E i \in TextElements(doc.nodes) : Len(LinesOf(doc.nodes, i)) > 1

\* C9: text wrapping.  "abcdefghij" in a container of width 40 at font-size
\* 16 stays on one line, being a single word that overflows alone, and every
\* line produced fits the container unless it is a single word.
C9_LongWordKept ==
  /\ LinesFit
  /\ (pc = "TextReconstructed" /\ svgContent = AbcdefghijDocument) =>
       \A i \in TextElements(doc.nodes) : LinesOf(doc.nodes, i) = <<Abcdefghij>>

\* a text has been wrapped into several lines one of which is a word that
\* overflows alone
C9_Witness ==
  /\ pc = "TextReconstructed"
  /\ \E i \in TextElements(doc.nodes) :
       /\ Len(LinesOf(doc.nodes, i)) > 1
       /\ \E l \in 1..Len(LinesOf(doc.nodes, i)) :
            ~FitsWidth(LinesOf(doc.nodes, i)[l], withText(textData)[1])

---------------------------------------------------------------------------
(* Properties of the whole call                                            *)

C10_NoStyleIndirection ==
  pc = "Serialized" =>
    /\ \A i \in 1..Len(out.nodes) :
         "class" \notin DOMAIN out.nodes[i].attrs /\ "style" \notin DOMAIN out.nodes[i].attrs
    /\ "class" \notin DOMAIN out.root
    /\ "style" \in DOMAIN out.root =>
         \A k \in 1..Len(out.root["style"]) :
            /\ out.root["style"][k].prop = "max-width"
            /\ \E q \in 1..Len(svgContent.root["style"]) :
                 svgContent.root["style"][q] = out.root["style"][k]

---------------------------------------------------------------------------
(* Properties of failure and of the stages                                 *)

\* no stage has run: every local and the result are as before the call
NothingRan ==
  /\ doc = NoSvgDocument
  /\ cssRules = <<>>
  /\ textData = <<>>
  /\ markerColors = NoAttrs
  /\ bbox = NoBox
  /\ out = NoOutput

\* C11: all or nothing.  On a content without svg element the call throws
\* 'No SVG element found' with no stage run and nothing returned, and it
\* throws in no other case; whatever a call returns begins with the XML
\* declaration, and a call that reaches its end has returned.
C11_AllOrNothing ==
  /\ ~svgContent.svg => (pc \in {"Idle", "Error"} /\ NothingRan)
  /\ pc = "Error" <=> thrown = NoSvgError
  /\ pc = "Error" => ~svgContent.svg
  /\ thrown \in {NoError, NoSvgError}
  /\ out # NoOutput => out.xmlDeclaration
  /\ pc = "Serialized" => (out # NoOutput /\ thrown = NoError)

\* the call has thrown
C11_Witness == pc = "Error" /\ thrown = NoSvgError /\ out = NoOutput

---------------------------------------------------------------------------
(* Properties of the colour normalization                                  *)

\* the value of a lowercase hexadecimal digit, 16 for any other character
hexValue(digit) ==
  IF \E v \in 1..16 : HexDigits[v] = digit
  THEN (CHOOSE v \in 1..16 : HexDigits[v] = digit) - 1
  ELSE 16

\* the number the n-th pair of digits encodes
decodePair(digits, n) == 16 * hexValue(digits[2 * n - 1]) + hexValue(digits[2 * n])

\* the colour the style of the rect declares in the input
DeclaredFill == svgContent.nodes[1].attrs["style"][1].value

\* C12: colour normalization.  The fill baked from rgb(r,g,b) is # followed
\* by six lowercase hexadecimal digits whose pairs decode to r, g and b;
\* rgba(r,g,b,a) gives what rgb(r,g,b) gives; none, keywords, hex strings
\* and other strings are baked unchanged; normalizing the result again
\* changes nothing; and each channel value in 0..255 is encoded by two
\* digits that decode to it.
C12_ColorNormalization ==
  (pc = "AttributesBaked" /\ svgContent \in ColorDocs) =>
    LET c == DeclaredFill
        h == getAttribute(doc.nodes[1].attrs, "fill")
    IN /\ c.k \in {"rgb", "rgba"} =>
            /\ h.k = "hex"
            /\ Len(h.digits) = 6
            /\ \A n \in 1..6 : hexValue(h.digits[n]) < 16
            /\ decodePair(h.digits, 1) = c.r
            /\ decodePair(h.digits, 2) = c.g
            /\ decodePair(h.digits, 3) = c.b
       /\ c.k = "rgba" => h = rgbToHex(Rgb(c.r, c.g, c.b))
       /\ c.k \notin {"rgb", "rgba"} => h = c
       /\ rgbToHex(h) = h
       /\ \A v \in 0..255 :
            LET pair == padStart2(toString16(v))
            IN Len(pair) = 2 /\ decodePair(pair, 1) = v

\* an rgba colour with a one-digit channel has been baked
C12_Witness ==
  /\ pc = "AttributesBaked"
  /\ svgContent = ColorDocument(Rgba(9, 128, 255, 5))
  /\ getAttribute(doc.nodes[1].attrs, "fill") = Hex(<<"0", "9", "8", "0", "f", "f">>)

---------------------------------------------------------------------------
(* Properties of contents without box and of damaged geometry              *)

CanvasAttrs == {"viewBox", "width", "height"}

\* the primitives of the input outside every marker
PrimitivesOutsideMarkers ==
  {i \in 1..Len(svgContent.nodes) :
     svgContent.nodes[i].tag \in PrimitiveTags /\ ~closestMarker(svgContent.nodes, i)}

\* C13: empty content.  When the content has no primitive outside markers
\* there is no box; and whenever there is no box, the root's viewBox, width
\* and height are those of the input after the fitting stage and in what
\* the call returns, and the call goes on to return its output.
C13_EmptyContent ==
  /\ (pc \in {"BoxFitted", "Serialized"} /\ PrimitivesOutsideMarkers = {}) => ~bbox.has
  /\ (pc \in {"BoxFitted", "Serialized"} /\ ~bbox.has) =>
       \A a \in CanvasAttrs : getAttribute(doc.root, a) = getAttribute(svgContent.root, a)
  /\ (pc = "BoxFitted" /\ ~bbox.has) => ENABLED Serialize
  /\ (pc = "Serialized" /\ ~bbox.has) =>
       /\ out.xmlDeclaration
       /\ \A a \in CanvasAttrs : getAttribute(out.root, a) = getAttribute(svgContent.root, a)

\* a content holding only a marker with a large rect has been returned with
\* the canvas the input gave
C13_Witness ==
  /\ pc = "Serialized"
  /\ ~bbox.has
  /\ Len(svgContent.nodes) = 3
  /\ hasAttribute(svgContent.root, "viewBox")
  /\ getAttribute(out.root, "viewBox") = ViewBox(0, 0, U(300), U(200))

---------------------------------------------------------------------------
(* Properties of undo and redo                                             *)

\* the code of the active tab
activeCode == activeTabOf(tabs, activeTabId).code

\* C14: whenever undo is available, one handleUndo (key or button) leaves
\* the active tab's code equal to the history entry immediately before the
\* entry that was current, and one handleRedo leaves it equal to the entry
\* immediately after the entry that was current (the undone text).
C14_UndoRestoresPrevious ==
  [][/\ (ClickUndo \/ KeyUndo) => activeCode' = history[currentIndex]
     /\ (ClickRedo \/ KeyRedo) => activeCode' = history[currentIndex + 2]]_vars

---------------------------------------------------------------------------
(* Properties of the live preview                                          *)

\* C15: after a render failed and the error is displayed, whenever the
\* chart then changes to a diagram mermaid renders, eventually the error
\* is cleared and the container displays that diagram (or the chart has
\* changed away from it again).
C15_RecoversFromError ==
  \A c \in ValidCharts :
    (error # Null /\ changes > errorSince /\ chart = c)
      ~> (\/ error = Null /\ mermaidRef = Container(Svg(c))
          \/ chart # c)

---------------------------------------------------------------------------
(* Properties of the attribute-baking pass                                 *)

\* a colour is baked in its normalized form
Baked(prop, value) == IF prop \in {"fill", "stroke"} THEN rgbToHex(value) ELSE value

\* inline style, else stylesheet, else the attribute the input had
ByPrecedence(i, prop) ==
  LET inlineStyles == parseInlineStyle(svgContent.nodes[i].attrs)
  IN IF prop \in DOMAIN inlineStyles THEN Baked(prop, inlineStyles[prop])
     ELSE IF prop \in DOMAIN ResolvedStyles(i) THEN Baked(prop, ResolvedStyles(i)[prop])
     ELSE getAttribute(svgContent.nodes[i].attrs, prop)

\* C17: baking precedence.  After the attribute-baking pass, each of fill,
\* stroke, stroke-width and opacity of every element outside markers has
\* the inline style value if the style declares the property, otherwise the
\* stylesheet value if a matching rule declares it, otherwise the value of
\* the attribute the element had.
C17_BakingPrecedence ==
  pc = "AttributesBaked" =>
    \A i \in 1..Len(doc.nodes) :
       ~closestMarker(svgContent.nodes, i) =>
         \A prop \in BakedProps :
            getAttribute(doc.nodes[i].attrs, prop) = ByPrecedence(i, prop)

---------------------------------------------------------------------------
(* Properties of marker references                                         *)

\* the attributes with every marker reference of the inline style given as
\* an attribute
AsAttributes(attrs) ==
  LET inlineStyles == parseInlineStyle(attrs)
      refs == {MarkerAttrs[j] : j \in 1..3} \cap DOMAIN inlineStyles
  IN [a \in DOMAIN attrs \cup refs |-> IF a \in refs THEN inlineStyles[a] ELSE attrs[a]]

AttributeForm(d) ==
  [d EXCEPT !.nodes = [i \in 1..Len(d.nodes) |->
                         [d.nodes[i] EXCEPT !.attrs = AsAttributes(d.nodes[i].attrs)]]]

\* the elements that reference a marker through the inline style only
InlineOnlyReferences ==
  {i \in 1..Len(svgContent.nodes) :
     /\ ~hasMarkerRef(svgContent.nodes[i].attrs)
     /\ hasMarkerRef(AsAttributes(svgContent.nodes[i].attrs))}

\* C18: marker references in inline-style form are honoured.  The marker
\* colour map is the one the same document gives with every inline-style
\* marker reference written as an attribute, and after the marker step the
\* shapes inside each marker are filled with the colour of that map.
C18_InlineReferenceHonoured ==
  LET asAttribute == extractMarkerColors(AttributeForm(svgContent), cssRules)
  IN /\ pc \in {"ColorsRead", "Prepared", "AttributesBaked", "Stripped", "MarkersRecolored"} =>
          markerColors = asAttribute
     /\ pc = "MarkersRecolored" =>
          \A i \in 1..Len(doc.nodes) :
             (/\ doc.nodes[i].tag \in MarkerShapeTags
              /\ doc.nodes[i].parent # 0
              /\ doc.nodes[doc.nodes[i].parent].tag = "marker") =>
               getAttribute(doc.nodes[i].attrs, "fill")
                 = markerColorOf(doc.nodes[doc.nodes[i].parent].attrs, asAttribute)

---------------------------------------------------------------------------
(* Properties of unparseable geometry                                      *)

\* the numeric geometry fields of the primitives that have fields
GeometryFields(tag) ==
  CASE tag = "rect" -> {"x", "y", "width", "height"}
    [] tag = "circle" -> {"cx", "cy", "r"}
    [] tag = "ellipse" -> {"cx", "cy", "rx", "ry"}
    [] tag = "text" -> {"x", "y"}
    [] OTHER -> {}

\* a coordinate list with 0 for each number that does not parse and for the
\* second number a last pair lacks
ZeroedCoords(toks) ==
  [j \in 1..Len(toks) |-> IF isNaNValue(toks[j]) THEN numToString(0) ELSE toks[j]]
    \o (IF Len(toks) % 2 = 1 THEN <<numToString(0)>> ELSE <<>>)

\* the element with 0 for every geometry field and coordinate that is
\* missing or does not parse
Zeroed(el) ==
  LET a == el.attrs
      fields == GeometryFields(el.tag)
      a1 == [f \in DOMAIN a \cup fields |->
               IF f \in fields /\ (f \notin DOMAIN a \/ isNaNValue(a[f]))
               THEN numToString(0) ELSE a[f]]
      c == CoordField(el.tag)
  IN IF el.tag \in {"path", "polygon", "polyline"} /\ c \in DOMAIN a /\ a[c].k = "coords"
     THEN [el EXCEPT !.attrs = setAttribute(a, c, Coords(ZeroedCoords(a[c].toks)))]
     ELSE [el EXCEPT !.attrs = a1]

\* some geometry value of the element is missing or does not parse
IsDamaged(el) == el.tag \in PrimitiveTags /\ Zeroed(el) # el

\* C19: unparseable geometry counts as zero.  The box is the one the same
\* tree gives with 0 written for every geometry field and coordinate that
\* is missing or does not parse: no primitive and no coordinate pair is
\* left out of the box.
C19_UnparseableCountsAsZero ==
  pc = "BoxFitted" =>
    bbox = calculateBoundingBox([i \in 1..Len(doc.nodes) |-> Zeroed(doc.nodes[i])])

---------------------------------------------------------------------------
(* Properties of the order of the stages                                   *)

\* the named stage that was entered last, 0 before the first
LastStage(order, p) ==
  LET named == CASE p \in {"StylesParsed", "TextRead", "ColorsRead", "Prepared"} -> "StylesParsed"
                 [] p \in {"AttributesBaked", "Stripped"} -> "AttributesBaked"
                 [] OTHER -> p
  IN IF \E k \in 1..Len(order) : order[k] = named
     THEN CHOOSE k \in 1..Len(order) : order[k] = named
     ELSE 0

\* every step that enters a named stage enters the one that follows, in the
\* order, the stage entered last
InOrder(order) ==
  (pc' # pc /\ \E k \in 1..Len(order) : order[k] = pc') =>
     /\ LastStage(order, pc) < Len(order)
     /\ order[LastStage(order, pc) + 1] = pc'

\* the shapes inside markers have been given their fill
MarkersDone(d) ==
  /\ \E i \in 1..Len(d.nodes) : closestMarker(d.nodes, i) /\ d.nodes[i].tag \in MarkerShapeTags
  /\ \A i \in 1..Len(d.nodes) :
       (closestMarker(d.nodes, i) /\ d.nodes[i].tag \in MarkerShapeTags) =>
         getAttribute(d.nodes[i].attrs, "stroke") = None

\* the rich-text containers have been replaced by text nodes
TextDone(d) ==
  /\ \E i \in 1..Len(d.nodes) : d.nodes[i].tag = "text"
  /\ \A i \in 1..Len(d.nodes) : d.nodes[i].tag # "foreignObject"

---------------------------------------------------------------------------
(* Properties of the order of reading and stripping                        *)

\* the class and style attributes of the root and of every element
ClassAndStyle(d) ==
  <<[a \in DOMAIN d.root \cap {"class", "style"} |-> d.root[a]],
    [i \in 1..Len(d.nodes) |->
       [a \in DOMAIN d.nodes[i].attrs \cap {"class", "style"} |-> d.nodes[i].attrs[a]]]>>

\* the stages of convertSvgToInkscape up to the end of the first pass
ReadingStages == {"StylesParsed", "TextRead", "ColorsRead", "Prepared", "AttributesBaked"}

\* the stages from the second pass on
StrippingStages == {"Stripped", "MarkersRecolored", "TextReconstructed", "BoxFitted", "Serialized"}

\* C21: reads precede stripping.  In convertSvgToInkscape the tree keeps
\* every class and style attribute of the input until the first pass has
\* ended, the marker colours and the baked attributes are those resolved on
\* the input, and nothing is resolved from the second pass on; in exportSVG
\* everything is read from the preview, which no step changes, before the
\* clone is made, and nothing is read once the clone exists.
C21_ReadsPrecedeStripping ==
  [][/\ pc' \in ReadingStages => ClassAndStyle(doc') = ClassAndStyle(svgContent)
     /\ pc' \in (ReadingStages \cup StrippingStages) \ {"StylesParsed", "TextRead"} =>
          markerColors' = extractMarkerColors(svgContent, parseCSSRules(svgContent.css))
     /\ pc' = "AttributesBaked" =>
          doc' = firstPass(prepareRoot(svgContent), parseCSSRules(svgContent.css))
     /\ pc \in StrippingStages \cup {"AttributesBaked"} =>
          UNCHANGED <<cssRules, textData, markerColors>>
     /\ preview' = preview
     /\ exportPc' = "Read" =>
          /\ exportTextData' = extractExportTextData(preview)
          /\ elementStyles' = extractElementStyles(preview)
          /\ exportMarkerColors' = extractExportMarkerColors(preview)
     /\ exportPc # "Idle" => UNCHANGED <<exportTextData, elementStyles, exportMarkerColors>>
     /\ exportPc' \in {"Idle", "Read"} => svgClone' = svgClone
     /\ exportPc' = "Cloned" => ClassAndStyle(svgClone') = ClassAndStyle(preview)]_vars

\* both paths have stripped their tree, and hold what class edge and the
\* rule .cluster rect gave before
C21_Witness ==
  /\ pc = "Stripped"
  /\ svgContent = ReadDocument([inline |-> FALSE, attr |-> FALSE, class |-> TRUE], <<"cluster">>)
  /\ markerColors = [id \in {"arrow1"} |-> rgbToHex(EdgeRuleStroke)]
  /\ getAttribute(doc.nodes[6].attrs, "fill") = Kw("green")
  /\ ~hasAttribute(doc.nodes[5].attrs, "class")
  /\ exportPc = "Converted"
  /\ exportMarkerColors = [id \in {"arrow1"} |-> rgbToHex(EdgeRuleStroke)]
  /\ getAttribute(svgClone.nodes[6].attrs, "fill") = Kw("green")
  /\ ~hasAttribute(svgClone.nodes[5].attrs, "class")
  /\ hasAttribute(preview.nodes[5].attrs, "class")

---------------------------------------------------------------------------
(* Properties of the export of the preview                                 *)

\* C25: export works on its own copy.  No step of exportSVG changes the
\* rendered svg (root attributes, stylesheet, elements and their
\* attributes), each export reads its maps from that unchanged tree, and an
\* export that follows another downloads the same document.
C25_ExportOnCopy ==
  [][/\ preview' = preview
     /\ exportPc' = "Read" =>
          /\ exportTextData' = extractExportTextData(preview')
          /\ elementStyles' = extractElementStyles(preview')
          /\ exportMarkerColors' = extractExportMarkerColors(preview')
     /\ exportPc' = "Cloned" => svgClone' = prepareRoot(preview')
     /\ Len(downloads') > Len(downloads) /\ Len(downloads) > 0 =>
          downloads'[Len(downloads')] = downloads[Len(downloads)]]_vars

\* two exports were made of a diagram with classes, a stylesheet and a
\* foreignObject: the downloads are equal and stripped, the preview is not
C25_Witness ==
  /\ Len(downloads) = 2
  /\ downloads[1] = downloads[2]
  /\ preview \in StageDocs
  /\ \E i \in 1..Len(preview.nodes) : preview.nodes[i].tag = "foreignObject"
  /\ \E i \in 1..Len(preview.nodes) : hasAttribute(preview.nodes[i].attrs, "class")
  /\ \A i \in 1..Len(downloads[2].nodes) :
       /\ downloads[2].nodes[i].tag # "foreignObject"
       /\ downloads[2].nodes[i].tag # "marker" =>
            ~hasAttribute(downloads[2].nodes[i].attrs, "class")

---------------------------------------------------------------------------
(* Properties of the styles of reconstructed text                          *)

\* the first of the values that is defined
FirstDefined(values) ==
  LET defined == {k \in 1..Len(values) : values[k] # Undef}
  IN values[Min(defined)]

\* the chain inline style, cascade, root-scope rule, fixed default for the
\* rich-text container fo of the input
ChainStyles(fo) ==
  LET styled == {j \in Descendants(svgContent.nodes, fo) :
                   svgContent.nodes[j].tag \in {"div", "span", "p"}}
      inline == IF styled = {} THEN NoAttrs
                ELSE parseInlineStyle(svgContent.nodes[Min(styled)].attrs)
      cascade == IF styled = {} THEN NoAttrs ELSE ResolvedStyles(Min(styled))
      got == MapGet(cssRules, IdSel(svgIdOf(svgContent).name))
      rootScope == IF got = Undef THEN NoAttrs ELSE got
  IN [color |-> rgbToHex(FirstDefined(<<Get(inline, "color"), Get(cascade, "color"),
                                        Get(cascade, "fill"), Get(rootScope, "fill"),
                                        DefaultColor>>)),
      fontSize |-> FirstDefined(<<Get(inline, "font-size"), Get(cascade, "font-size"),
                                  Get(rootScope, "font-size"), Px(16)>>),
      fontFamily |-> FirstDefined(<<Get(inline, "font-family"), Get(cascade, "font-family"),
                                    Get(rootScope, "font-family"), Kw("Arial, sans-serif")>>),
      fontWeight |-> FirstDefined(<<Get(inline, "font-weight"), Get(cascade, "font-weight"),
                                    Get(rootScope, "font-weight"), Kw("normal")>>)]

\* the attributes of a text element carry the styles
CarriesStyles(attrs, styles) ==
  /\ getAttribute(attrs, "fill") = styles.color
  /\ getAttribute(attrs, "font-size") = styles.fontSize
  /\ getAttribute(attrs, "font-family") = styles.fontFamily
  /\ IF styles.fontWeight \in {Kw("normal"), Kw("400")}
     THEN ~hasAttribute(attrs, "font-weight")
     ELSE getAttribute(attrs, "font-weight") = styles.fontWeight

\* the x and y of the element are numbers
NumericPosition(attrs) ==
  \A a \in {"x", "y"} : hasAttribute(attrs, a) => ~isNaNValue(getAttribute(attrs, a))

\* C22: text style fallback chain.  After the text stage, the text element
\* of every rich-text container, with or without a div, span or p below it,
\* carries for colour, font-size, font-family and font-weight the inline
\* value of the first styled descendant, else the cascade value, else the
\* value of the rule #<root id>, else the fixed default; and the x and y of
\* every text and tspan are numbers.
C22_TextStyleFallback ==
  pc = "TextReconstructed" =>
    LET fos == elementsByTag(svgContent.nodes, "foreignObject", Len(svgContent.nodes))
        texts == elementsByTag(doc.nodes, "text", Len(doc.nodes))
    IN /\ Len(texts) = Len(fos)
       /\ \A k \in 1..Len(fos) : CarriesStyles(doc.nodes[texts[k]].attrs, ChainStyles(fos[k]))
       /\ \A i \in 1..Len(doc.nodes) :
            doc.nodes[i].tag \in {"text", "tspan"} => NumericPosition(doc.nodes[i].attrs)

---------------------------------------------------------------------------
(* Properties of the fitted canvas around reconstructed text               *)

\* the font size of a text element as the box computation reads it, tenths
FontSizeOf(attrs) == parseFloatOr(getAttribute(attrs, "font-size"), 160)

WidestLine(nodes, i) == Max({Len(LinesOf(nodes, i)[l]) : l \in 1..Len(LinesOf(nodes, i))})

\* the block of lines of text element i: n x 1.2 x font-size high, the
\* widest line x 0.6 x font-size wide, centred on the element's x and y;
\* it lies inside the viewBox vb (both sides in tenths, times 10)
BlockInside(nodes, i, vb) ==
  LET a == nodes[i].attrs
      cx == parseFloatOr(getAttribute(a, "x"), 0)
      cy == parseFloatOr(getAttribute(a, "y"), 0)
      fs == FontSizeOf(a)
      n == Len(LinesOf(nodes, i))
      w == WidestLine(nodes, i)
  IN /\ 10 * cx - 3 * w * fs >= 10 * vb.x
     /\ 10 * cx + 3 * w * fs <= 10 * (vb.x + vb.w * 10)
     /\ 10 * cy - 6 * n * fs >= 10 * vb.y
     /\ 10 * cy + 6 * n * fs <= 10 * (vb.y + vb.h * 10)

\* the width text element i contributes to the box, tenths
ContributedWidth(nodes, i) ==
  Max({pt[1] : pt \in elementPoints(nodes, i)}) - Min({pt[1] : pt \in elementPoints(nodes, i)})

\* C23: no clipped and no dead space for reconstructed text.  After fitting,
\* the block of lines of every text element lies inside the fitted viewBox,
\* and a text of several lines contributes to the box no more width than
\* the estimate of its widest line.
C23_TextBlockFits ==
  pc = "BoxFitted" =>
    \A i \in TextElements(doc.nodes) :
       /\ BlockInside(doc.nodes, i, getAttribute(doc.root, "viewBox"))
       /\ Len(LinesOf(doc.nodes, i)) > 1 =>
            10 * ContributedWidth(doc.nodes, i) <= 6 * WidestLine(doc.nodes, i) * FontSizeOf(doc.nodes[i].attrs)

---------------------------------------------------------------------------
(* Properties of the marker colour against the referencing element         *)

\* the elements of the output that reference marker id through an attribute
OutputReferences(id) ==
  {i \in 1..Len(out.nodes) :
     \E a \in {"marker-end", "marker-start", "marker-mid"} :
        /\ hasAttribute(out.nodes[i].attrs, a)
        /\ out.nodes[i].attrs[a] = Url(id)}

\* C29: arrowhead matches its line.  In the output, for every marker that
\* exactly one element references, the fill of the marker's shapes is the
\* colour of the stroke attribute of that element, whichever of inline
\* stroke, stroke attribute and stylesheet stroke the element had.
C29_ArrowheadMatchesLine ==
  pc = "Serialized" =>
    \A m \in 1..Len(out.nodes) :
       (/\ out.nodes[m].tag = "marker"
        /\ hasAttribute(out.nodes[m].attrs, "id")
        /\ Cardinality(OutputReferences(out.nodes[m].attrs["id"].name)) = 1) =>
         \A i \in OutputReferences(out.nodes[m].attrs["id"].name) :
            hasAttribute(out.nodes[i].attrs, "stroke") =>
              \A j \in ContainedShapes(out.nodes, m, MarkerShapeTags) :
                 getAttribute(out.nodes[j].attrs, "fill")
                   = rgbToHex(getAttribute(out.nodes[i].attrs, "stroke"))

---------------------------------------------------------------------------
(* Properties of the preview against the latest chart                      *)

\* C27: the preview shows the latest chart.  Once no render is pending, and
\* the chart is one mermaid renders and the container is shown, the
\* container holds the rendering of the current chart, in whatever order
\* the renders started for earlier charts and for this one have resolved.
C27_PreviewShowsLatest ==
  (/\ pending = <<>>
   /\ chart \in ValidCharts
   /\ error = Null
   /\ mermaidRef.current) => mermaidRef = Container(Svg(chart))

---------------------------------------------------------------------------
(* Properties of useHistory                                                *)

\* C26: history bounds.  Under push, undo and redo the history holds
\* between 1 and 50 entries and currentIndex is the index of one of them;
\* after push(v) the current entry is v and redo is not available; undo at
\* index 0 and redo at the last index change nothing.
C26_HistoryBounds ==
  [][/\ Len(history') \in 1..historyLimit
     /\ currentIndex' \in 0..(Len(history') - 1)
     /\ \A v \in Codes :
          HookPush(v) => /\ current(Render(history', currentIndex', tabs', activeTabId')) = v
                         /\ ~canRedo(Render(history', currentIndex', tabs', activeTabId'))
     /\ (HookUndo /\ currentIndex = 0) => UNCHANGED <<history, currentIndex>>
     /\ (HookRedo /\ currentIndex = Len(history) - 1) => UNCHANGED <<history, currentIndex>>]_vars

\* the limit was reached and the oldest entry dropped: 50 entries, the
\* first no longer the initial value, the last one current
C26_Witness ==
  /\ Len(history) = historyLimit
  /\ history[1] = "graph B"
  /\ currentIndex = historyLimit - 1
  /\ history[historyLimit] = defaultDiagram

---------------------------------------------------------------------------
(* Properties of the upload conversion                                     *)

UploadStep == <<isConverting, reading, alerts, converted>>' # <<isConverting, reading, alerts, converted>>

\* C24: upload conversion always settles.  Once an upload has set
\* isConverting, it eventually is false again; a file is downloaded only
\* when the conversion of the file read has returned, and is what it
\* returned; an upload that ends without a download ends with one more
\* message; and no step of an upload changes the tabs, the history or its
\* index.
C24_UploadSettles ==
  /\ isConverting ~> ~isConverting
  /\ [][UploadStep =>
          /\ UNCHANGED <<history, currentIndex, tabs, activeTabId, nextId>>
          /\ converted' # converted =>
               /\ convertSvgToInkscape(ContentOf(reading)).thrown = ""
               /\ converted' = Append(converted, convertSvgToInkscape(ContentOf(reading)).out)
               /\ alerts' = alerts
          /\ (isConverting /\ ~isConverting' /\ converted' = converted) =>
               Len(alerts') = Len(alerts) + 1
          /\ isConverting' = reading'.file]_vars

\* one upload was converted and downloaded and one failed with a message,
\* after the user had typed; the flag is down again
C24_Witness ==
  /\ ~isConverting
  /\ Len(converted) = 1
  /\ converted[1].xmlDeclaration
  /\ alerts = <<"Failed to convert SVG: No SVG element found">>
  /\ Len(history) > 1

---------------------------------------------------------------------------
(* Properties of the tab list                                              *)

TabIds(t) == {t[k].id : k \in DOMAIN t}

\* C28: tab identifiers are unique.  After any sequence of addTab,
\* closeTab, renameTab and reloads of the page, no two tabs of the list
\* have the same id.
C28_TabIdsUnique ==
  \A j, k \in DOMAIN tabs : j # k => tabs[j].id # tabs[k].id

====
